---- MODULE Spec2Model ----
(***************************************************************************)
(* The op daemon (package srv) and the manifest resolution it relies on    *)
(* (package lib): the active route registry, the route supervisor, the     *)
(* process runner, the command executor, the FIFO sessions and cleanup.    *)
(***************************************************************************)
EXTENDS Integers, Sequences, FiniteSets, TLC

\* ------------------------------------------------------------------ bounds

\* Number of client sessions the daemon serves in one behaviour.
NumCmds == 2
\* Number of procs of route r1 of every manifest (r2 has one proc).
NumProcs == 2
\* Number of route instances the commands of one behaviour start in all.
MaxRoutes == 3
\* Number of invocations of op racing for the lock file of one workdir.
NumInv == 3
\* Number of clients registering, again and again, while the id pool is
\* looked at.
NumUsers == 3
\* Number of values of a client id: the ids are bytes, counted here modulo
\* IdSpace instead of 256.
IdSpace == 4
\* Number of messages a program other than op's client writes on the input
\* FIFO of its session.
MaxMsgs == 3
\* Length of the texts expandEnv is given.
MaxText == 3
MaxWrite == 2
MaxWrites == 3

Cmds == 1..NumCmds
None == "none"

\* The callers of cleanup: the exit command of each session, the SIGINT
\* handler, and the deferred call of the server's Run.
SigT == NumCmds + 1
DeferT == NumCmds + 2
Triggers == Cmds \cup {SigT, DeferT}

\* --------------------------------------------------- manifest resolution

EmptyMap == [k \in {} |-> ""]

\* The procs of the manifests have no name (newRoute fills it in); the last
\* proc of r1 reads its stdin from a file.
InFile == "in.txt"
Plain == [Name |-> "", In |-> ""]
Fed == [Name |-> "", In |-> InFile]
ProcsOf(n) ==
    IF n = "r1" THEN [i \in 1..NumProcs |-> IF i = NumProcs THEN Fed ELSE Plain]
                ELSE <<Plain>>

\* The manifests the clients read.  M0 declares no namespace at all; M1
\* declares one at top level, inherited by r1 and redeclared by r2 through a
\* var of the route.
M0 ==
    [Namespace |-> "", Var |-> EmptyMap,
     Routes |-> [n \in {"r1", "r2"} |->
        [Default |-> (n = "r1"), Namespace |-> "", Var |-> EmptyMap,
         Procs |-> ProcsOf(n)]]]

M1 ==
    [Namespace |-> "n1", Var |-> EmptyMap,
     Routes |-> [n \in {"r1", "r2"} |->
        [Default |-> TRUE,
         Namespace |-> IF n = "r1" THEN "" ELSE "{{.ns}}",
         Var |-> IF n = "r1" THEN EmptyMap ELSE [k \in {"ns"} |-> "n1"],
         Procs |-> ProcsOf(n)]]]

\* M2 is M1 with an input file that is there: the last proc of r1 reads its
\* stdin from it.
OkFile == "ok.txt"
Piped == [Name |-> "", In |-> OkFile]
M2 ==
    [M1 EXCEPT !.Routes = [n \in {"r1", "r2"} |->
        [M1.Routes[n] EXCEPT !.Procs =
            IF n = "r1"
            THEN [i \in 1..NumProcs |-> IF i = NumProcs THEN Piped ELSE Plain]
            ELSE <<Plain>>]]]

\* M3 is M1 with named procs, p1, p2, ... in r1 and p1 in r2, and with r2 not
\* a default route.
Named(i) == [Name |-> "p" \o ToString(i), In |-> ""]
M3 ==
    [M1 EXCEPT !.Routes = [n \in {"r1", "r2"} |->
        [M1.Routes[n] EXCEPT !.Default = (n = "r1"),
                             !.Procs =
            IF n = "r1" THEN [i \in 1..NumProcs |-> Named(i)]
                        ELSE <<Named(1)>>]]]

ManifestFile(id) ==
    CASE id = "M0" -> M0
      [] id = "M1" -> M1
      [] id = "M3" -> M3
      [] OTHER -> M2

\* merge: keys of src are copied into dst, keys already in dst keep their value.
mergeSrcWins(dst, src) ==
    [k \in (DOMAIN dst) \cup (DOMAIN src) |->
        IF k \in DOMAIN src THEN src[k] ELSE dst[k]]
merge(dst, src) ==
    [k \in (DOMAIN dst) \cup (DOMAIN src) |->
        IF k \in DOMAIN dst THEN dst[k] ELSE src[k]]

\* interpret: s executed as a text template on the map m.  The strings of the
\* manifests are plain text or the single field action {{.ns}}; a key missing
\* from the map renders as "<no value>".
interpret(s, m) ==
    IF s = "{{.ns}}"
    THEN (IF "ns" \in DOMAIN m THEN m["ns"] ELSE "<no value>")
    ELSE s

\* The namespace DecodeConfig gives a route.
routeNamespace(x, route) ==
    LET var == merge(route.Var, x.Var)
        inherited == IF route.Namespace = "" THEN x.Namespace ELSE route.Namespace
        rendered == interpret(inherited, var)
    IN  IF rendered = "" THEN "default" ELSE rendered

\* DecodeConfig: the scopes rolled out from top to bottom.  The top-level
\* Namespace field is returned as it was read.
DecodeConfig(id) ==
    LET x == ManifestFile(id)
    IN  [Namespace |-> x.Namespace,
         Var |-> x.Var,
         Routes |-> [n \in DOMAIN x.Routes |->
            [Default |-> x.Routes[n].Default,
             Namespace |-> routeNamespace(x, x.Routes[n]),
             Var |-> merge(x.Routes[n].Var, x.Var),
             Procs |-> x.Routes[n].Procs]]]

\* ----------------------------------------------------------------- commands

CmdCancel == "-c"
CmdExit == "-e"
CmdKill == "-k"
CmdList == "-l"
CmdRestart == "-r"
CmdRun == ""

ManifestIds == {"M0", "M1"}
RouteArgs == {"", "r1"}

\* The command lines of the clients: switch, manifest, route argument, proc
\* argument.  Run,
\* kill and list with each manifest, with and without a route argument;
\* restart with a route argument; exit (which reads neither manifest nor
\* argument) once.
Inputs ==
    ({CmdRun, CmdKill, CmdList} \X ManifestIds \X RouteArgs \X {""})
    \cup ({CmdRestart} \X ManifestIds \X {"r1"} \X {""})
    \cup {<<CmdExit, "M1", "", "">>}
Names == {"r1", "r2"}

\* The Command a client sends: cli.Run fills Namespace with the manifest's
\* top-level namespace and Config with the resolved routes.  Err is what
\* command.run returned.
clientCmd(sw, man, route, proc) ==
    [Sw |-> sw, Man |-> man, Namespace |-> DecodeConfig(man).Namespace,
     Route |-> route, Proc |-> proc, Config |-> DecodeConfig(man).Routes,
     Err |-> ""]

NoCmd == [Sw |-> None, Man |-> None, Namespace |-> "", Route |-> "",
          Proc |-> "", Config |-> EmptyMap, Err |-> ""]

\* ------------------------------------------------------------------- routes

\* A route instance is named by the command that spawned it and its name.
RouteIds == Cmds \X Names
NoRouteId == <<0, "">>
Namespaces == {"", "default", "n1"}
Keys == Namespaces \X Names

\* strconv.Itoa
Itoa(i) == ToString(i)

\* newRoute: the tasks of a route, names filled in with the proc's index.
newRouteTasks(cfgs) ==
    [i \in 1..Len(cfgs) |->
        [Name |-> IF cfgs[i].Name = "" THEN Itoa(i - 1) ELSE cfgs[i].Name,
         In |-> cfgs[i].In]]

NoRoute ==
    [pc |-> None, namespace |-> "", tasks |-> <<>>, idx |-> 0, active |-> "",
     cancelled |-> FALSE, done |-> FALSE, child |-> None, sigint |-> FALSE,
     started |-> 0, reaped |-> 0, err |-> "", panic |-> FALSE, ev |-> <<>>]

VARIABLES
    daemon,         \* "up", "crashed" (unrecovered panic) or "exited"
    mainCancelled,  \* mainCtx is cancelled
    cleanupMux,     \* the trigger whose cleanup holds cleanupMux, or 0
    cleanupDone,    \* cleanupDone is closed
    lockFile,       \* the lock file exists
    ioWg,           \* counter of ioWg
    cl,             \* position of the cleanup() call of each trigger
    sess,           \* position of each client session
    cmd,            \* the Command each session decoded
    cpc,            \* position of each command's execution
    cur,            \* the route a kill or list callback works on
    it,             \* state of the registry iteration of each command
    out,            \* lines a list command has gathered
    active,         \* the active registry
    rt,             \* the route instances
    stderrLog,      \* route error reports, per sink
    snap,           \* history: the routes registered when a command began
    srv,            \* srv.Run: its switch, its position, its own routes
    inv,            \* the invocations of op racing for the lock file
    idActive,       \* idActive: the client ids in use
    idNext,         \* idNext: the cursor of getId
    idOf,           \* the register call and session of each client id user
    cli,            \* a client: its position, its SIGINT handler, its pipes
    fifo,           \* the messages written on the client's input FIFO
    ses,            \* the session serving that client
    text,           \* the text of a manifest file, byte by byte
    expanded,       \* expandEnv's result for it
    manifest,       \* the env and var declarations of a manifest file
    resolved,       \* DecodeConfig's result for it
    pr,             \* one proc.run: its goroutines and its child
    activeMux,      \* activeMux: who holds it
    rng,            \* a registry iteration: its position and what it has seen
    rts,            \* the routes it ranges over: their state, their context
    px,             \* a prefixer, its sink and the writes it was given
    hs              \* a client and serve opening the FIFOs of one id

core == <<daemon, mainCancelled, cleanupMux, cleanupDone, lockFile, ioWg, cl,
          sess, cmd, cpc, cur, it, out, active, rt, stderrLog, snap>>

\* The state of the parts checked on their own: the server's Run, the
\* invocations racing for the lock, the client id pool, a client and its
\* FIFO session.
aux1 == <<srv, inv, idActive, idNext, idOf, cli, fifo, ses>>

\* The state of the functions and goroutines checked on their own.
aux2 == <<text, expanded, manifest, resolved, pr, activeMux, rng, rts, px, hs>>

aux == <<aux1, aux2>>

vars == <<core, aux>>


NoIt == [ns |-> "", must |-> {}, may |-> {}, att |-> FALSE]
NoSnap == [r \in RouteIds |-> [st |-> "no", idx |-> 0]]
\* The stderr sinks: the daemon's own (0) and each command's error FIFO.
Sinks == {0} \cup Cmds

CmdServer == "-s"

\* The daemon has the lock and nothing has reached it yet.
InitDaemon ==
    /\ daemon = "up"
    /\ mainCancelled = FALSE
    /\ cleanupMux = 0
    /\ cleanupDone = FALSE
    /\ ioWg = 0
    /\ cl = [t \in Triggers |-> "idle"]
    /\ sess = [c \in Cmds |-> None]
    /\ cmd = [c \in Cmds |-> NoCmd]
    /\ cpc = [c \in Cmds |-> None]
    /\ cur = [c \in Cmds |-> NoRouteId]
    /\ it = [c \in Cmds |-> NoIt]
    /\ out = [c \in Cmds |-> <<>>]
    /\ active = [k \in Keys |-> NoRouteId]
    /\ rt = [r \in RouteIds |-> NoRoute]
    /\ stderrLog = [s \in Sinks |-> {}]
    /\ snap = [c \in Cmds |-> NoSnap]

\* A dedicated server (switch -s) whose Run waits for cleanupDone.
NoSrv == [sw |-> CmdServer, pc |-> "await", own |-> 0, http |-> "up"]

InitSrvIdle == srv = NoSrv
InitLockIdle == inv = <<>>
InitIdsIdle == idActive = {} /\ idNext = 0 /\ idOf = <<>>
\* A client is op's own (cli.Run) or another program that speaks the protocol
\* of the FIFOs; the latter has its pipes open from the start.
NoCli == [kind |-> "op", pc |-> "start", sig |-> FALSE, inPipe |-> FALSE,
          sent |-> <<>>]
PeerCli == [kind |-> "peer", pc |-> "wait", sig |-> FALSE, inPipe |-> TRUE,
            sent |-> <<>>]

\* serve: its position, the message it took for the Command, what its decoder
\* has read ahead, its listener goroutine, the command's context, and what
\* ended its last read of input.
NoSes == [pc |-> "opening", first |-> None, buf |-> <<>>, lis |-> None,
          ctx |-> FALSE, barrier |-> None]

InitFifoIdle == cli = NoCli /\ fifo = <<>> /\ ses = NoSes

\* No text has been read.
NoResult == [done |-> FALSE, out |-> <<>>]
InitEnvIdle == text = <<>> /\ expanded = NoResult

InitScopesIdle == manifest = <<>> /\ resolved = NoResult

\* A proc that newProc has built: its streams as configured, nothing started.
NoProc ==
    [cfg |-> [In |-> "", Out |-> "", Err |-> ""], pc |-> "start",
     child |-> None, cin |-> "idle", cout |-> "idle", cerr |-> "idle",
     done |-> FALSE, sig |-> FALSE]
InitProcIdle == pr = NoProc

\* No iteration is under way and the mutex is free.
NoRange ==
    [kind |-> "one", pc |-> "finished", ns |-> "", cur |-> <<>>,
     seen |-> {}, seenNs |-> {}]
InitRangeIdle == activeMux = "free" /\ rng = NoRange /\ rts = <<>>

\* No prefixer is built.
NoPrefixer == [buf |-> <<>>, n |-> 0, dst |-> <<>>, writes |-> <<>>]

InitPrefixIdle == px = NoPrefixer

\* No handshake is under way.
InitShakeIdle == hs = <<>>

InitAux2 ==
    /\ InitEnvIdle
    /\ InitScopesIdle
    /\ InitProcIdle
    /\ InitRangeIdle
    /\ InitPrefixIdle
    /\ InitShakeIdle

InitAux ==
    /\ InitSrvIdle
    /\ InitLockIdle
    /\ InitIdsIdle
    /\ InitFifoIdle
    /\ InitAux2

Init ==
    /\ lockFile = TRUE
    /\ InitDaemon
    /\ InitAux

\* routesDone: made and closed by init, and never assigned again.
routesDone == TRUE

\* ---------------------------------------------------------- active registry

\* The names registered in a namespace (the keys of the namespace's map).
nsNames(reg, namespace) == {n \in Names : reg[<<namespace, n>>] # NoRouteId}

\* activeGet: the route registered under (namespace, name), or NoRouteId.
activeGet(reg, namespace, name) == reg[<<namespace, name>>]

\* activeSet returns "already exists" when the name is taken in the namespace.
activeSetExistsNever(reg, namespace, name) == FALSE
activeSetExists(reg, namespace, name) ==
    reg[<<namespace, name>>] # NoRouteId

\* activeSet's insertion.
activeSetInsert(reg, namespace, name, r) ==
    [reg EXCEPT ![<<namespace, name>>] = r]

\* activeRemove's deletion (the route found there is cancelled by the caller).
activeRemoveDelete(reg, namespace, name) ==
    [reg EXCEPT ![<<namespace, name>>] = NoRouteId]

\* A range over a namespace's map that is under way sees an insertion into
\* that map as an entry it may or may not produce.
itAfterSet(i, namespace, name) ==
    IF i.att /\ i.ns = namespace
    THEN [i EXCEPT !.may = @ \cup {name}]
    ELSE i

\* A range under way never produces an entry deleted before it was reached.
\* When the deletion empties the namespace its map leaves the registry: the
\* range keeps iterating the old, empty map and sees no later insertion.
itAfterRemove(i, namespace, name, emptied) ==
    IF i.att /\ i.ns = namespace
    THEN [i EXCEPT !.must = @ \ {name}, !.may = @ \ {name},
                   !.att = ~emptied]
    ELSE i

\* ------------------------------------------------------------------- routes

\* The route's context is done: its own cancel, or the root context's (the
\* command's context is derived from the root context).
ctxDone(r) == rt[r].cancelled \/ mainCancelled

\* The sink executeRun reports a route's error to: the package's stderr.
errSink(c) == 0

report(c, name) ==
    [stderrLog EXCEPT ![errSink(c)] = @ \cup {<<c, name>>}]

\* Where route.run goes when activeSet fails: it returns, nothing is deferred
\* yet.
afterSetErrorDeferred == "defer_remove"
afterSetError == "ended"

\* route.run, first statement: activeSet; on error return it, and
\* executeRun's goroutine reports it.
RouteRegister(r) ==
    /\ daemon = "up"
    /\ rt[r].pc = "new"
    /\ IF activeSetExists(active, rt[r].namespace, r[2])
       THEN /\ rt' = [rt EXCEPT ![r].pc = afterSetError,
                                 ![r].err = "already exists"]
            /\ stderrLog' = report(r[1], r[2])
            /\ UNCHANGED <<active, it>>
       ELSE /\ active' = activeSetInsert(active, rt[r].namespace, r[2], r)
            /\ it' = [c \in Cmds |-> itAfterSet(it[c], rt[r].namespace, r[2])]
            /\ rt' = [rt EXCEPT ![r].pc = "loop", ![r].idx = 1]
            /\ UNCHANGED stderrLog
    /\ UNCHANGED <<daemon, mainCancelled, cleanupMux, cleanupDone, lockFile,
                   ioWg, cl, sess, cmd, cpc, cur, out, snap>>
    /\ UNCHANGED aux

\* newProc can fail only where it opens or creates something: here the input
\* file of a proc that has one, when the file is one that may be missing.
newProcMayFail(cfg) == cfg.In = InFile

\* route.run, one turn of the loop up to p.run: the cancellation check, newProc
\* and the label; after the last proc the label "finished".
\* On a newProc error the return statement reads p.name with p nil: the
\* goroutine panics, its deferred function runs, then the process dies.
RouteNext(r) ==
    /\ daemon = "up"
    /\ rt[r].pc = "loop"
    /\ IF rt[r].idx > Len(rt[r].tasks)
       THEN rt' = [rt EXCEPT ![r].active = "finished", ![r].pc = "defer_remove"]
       ELSE IF ctxDone(r)
       THEN rt' = [rt EXCEPT ![r].active = "canceled", ![r].err = "canceled",
                             ![r].pc = "defer_remove"]
       ELSE \/ rt' = [rt EXCEPT ![r].active = rt[r].tasks[rt[r].idx].Name,
                                ![r].pc = "start"]
            \/ /\ newProcMayFail(rt[r].tasks[rt[r].idx])
               /\ rt' = [rt EXCEPT ![r].err = "setup", ![r].panic = TRUE,
                                   ![r].pc = "defer_remove"]
    /\ UNCHANGED <<daemon, mainCancelled, cleanupMux, cleanupDone, lockFile,
                   ioWg, cl, sess, cmd, cpc, cur, it, out, active, stderrLog,
                   snap>>
    /\ UNCHANGED aux

\* Where route.run goes after p.run returned err: on with the loop, or out.
routeAfterRunAlways(err) == "loop"
routeAfterRunNoRemove(err) == IF err = "" THEN "loop" ELSE "defer_close"
routeAfterRun(err) == IF err = "" THEN "loop" ELSE "defer_remove"

\* The label after p.run returned err.
labelAfterRun(label, err) == IF err = "" THEN label ELSE label \o " error"

\* route.run wraps whatever p.run returned as "<name> run error".
runError(err) == IF err = "" THEN "" ELSE "run"

\* proc.run: cmd.Start.
ProcStart(r) ==
    /\ daemon = "up"
    /\ rt[r].pc = "start"
    /\ \/ rt' = [rt EXCEPT ![r].child = "running", ![r].started = @ + 1,
                           ![r].pc = "wait"]
       \/ rt' = [rt EXCEPT ![r].err = runError("start"),
                           ![r].active = labelAfterRun(@, "start"),
                           ![r].pc = routeAfterRun("start")]
    /\ UNCHANGED <<daemon, mainCancelled, cleanupMux, cleanupDone, lockFile,
                   ioWg, cl, sess, cmd, cpc, cur, it, out, active, stderrLog,
                   snap>>
    /\ UNCHANGED aux

\* The child exits.
ChildExit(r) ==
    /\ daemon = "up"
    /\ rt[r].pc = "wait"
    /\ rt[r].child = "running"
    /\ rt' = [rt EXCEPT ![r].child = "exited"]
    /\ UNCHANGED <<daemon, mainCancelled, cleanupMux, cleanupDone, lockFile,
                   ioWg, cl, sess, cmd, cpc, cur, it, out, active, stderrLog,
                   snap>>
    /\ UNCHANGED aux

\* What the cancel goroutine does to the child in the done case, in order:
\* the write side of its stdin is closed if one is attached, then it is sent
\* SIGINT (and the 10 s timer is armed).
cancelEventsSignalFirst(cfg) ==
    IF cfg.In # "" THEN <<"SIGINT", "close_stdin">> ELSE <<"SIGINT">>
cancelEvents(cfg) ==
    IF cfg.In # "" THEN <<"close_stdin", "SIGINT">> ELSE <<"SIGINT">>

\* proc.run's cancel goroutine takes the done case: it signals the child.
ProcCancel(r) ==
    /\ daemon = "up"
    /\ rt[r].pc = "wait"
    /\ ctxDone(r)
    /\ ~rt[r].sigint
    /\ rt' = [rt EXCEPT ![r].sigint = TRUE,
                        ![r].ev = cancelEvents(rt[r].tasks[rt[r].idx])]
    /\ UNCHANGED <<daemon, mainCancelled, cleanupMux, cleanupDone, lockFile,
                   ioWg, cl, sess, cmd, cpc, cur, it, out, active, stderrLog,
                   snap>>
    /\ UNCHANGED aux

\* proc.run: the copiers are through and cmd.Wait returns.
ProcReap(r) ==
    /\ daemon = "up"
    /\ rt[r].pc = "wait"
    /\ rt[r].child = "exited"
    /\ rt' = [rt EXCEPT ![r].child = "reaped", ![r].reaped = @ + 1,
                        ![r].pc = "ret"]
    /\ UNCHANGED <<daemon, mainCancelled, cleanupMux, cleanupDone, lockFile,
                   ioWg, cl, sess, cmd, cpc, cur, it, out, active, stderrLog,
                   snap>>
    /\ UNCHANGED aux

\* What proc.run can return once the child is reaped: "canceled" when the
\* cancel goroutine took the done case (it can still take it now, if the
\* context is done), otherwise the wait result: nil, or an error when the
\* exit status is not 0.
runResults(r) ==
    IF rt[r].sigint THEN {"canceled"}
    ELSE IF ctxDone(r) THEN {"canceled", "", "exit"}
    ELSE {"", "exit"}


\* proc.run returns to route.run, which sets the label on error.
ProcReturn(r) ==
    /\ daemon = "up"
    /\ rt[r].pc = "ret"
    /\ \E err \in runResults(r) :
         rt' = [rt EXCEPT ![r].err = runError(err),
                          ![r].active = labelAfterRun(@, err),
                          ![r].sigint = FALSE,
                          ![r].ev = <<>>,
                          ![r].child = None,
                          ![r].idx = IF err = "" THEN @ + 1 ELSE @,
                          ![r].pc = routeAfterRun(err)]
    /\ UNCHANGED <<daemon, mainCancelled, cleanupMux, cleanupDone, lockFile,
                   ioWg, cl, sess, cmd, cpc, cur, it, out, active, stderrLog,
                   snap>>
    /\ UNCHANGED aux

\* The deferred function of route.run, first call: activeRemove, which cancels
\* the route it finds under the name and deletes it.
DeferRemove(r) ==
    /\ daemon = "up"
    /\ rt[r].pc = "defer_remove"
    /\ LET namespace == rt[r].namespace
           found == activeGet(active, namespace, r[2])
       IN  IF found = NoRouteId
           THEN /\ rt' = [rt EXCEPT ![r].pc = "defer_close"]
                /\ UNCHANGED <<active, it>>
           ELSE /\ rt' = [rt EXCEPT ![found].cancelled = TRUE,
                                    ![r].pc = "defer_close"]
                /\ active' = activeRemoveDelete(active, namespace, r[2])
                /\ it' = [c \in Cmds |->
                            itAfterRemove(it[c], namespace, r[2],
                                          nsNames(active', namespace) = {})]
    /\ UNCHANGED <<daemon, mainCancelled, cleanupMux, cleanupDone, lockFile,
                   ioWg, cl, sess, cmd, cpc, cur, out, stderrLog, snap>>
    /\ UNCHANGED aux

\* The deferred function, second call: close(x.done).
DeferClose(r) ==
    /\ daemon = "up"
    /\ rt[r].pc = "defer_close"
    /\ rt' = [rt EXCEPT ![r].done = TRUE, ![r].pc = "defer_cancel"]
    /\ UNCHANGED <<daemon, mainCancelled, cleanupMux, cleanupDone, lockFile,
                   ioWg, cl, sess, cmd, cpc, cur, it, out, active, stderrLog,
                   snap>>
    /\ UNCHANGED aux

\* The deferred function, last call: x.cancel(); then route.run is over.  A
\* panicking goroutine takes the process down; otherwise executeRun's
\* goroutine reports the error, if any.
RouteReturn(r) ==
    /\ daemon = "up"
    /\ rt[r].pc = "defer_cancel"
    /\ IF rt[r].panic
       THEN /\ rt' = [rt EXCEPT ![r].cancelled = TRUE, ![r].pc = "panicked"]
            /\ daemon' = "crashed"
            /\ UNCHANGED stderrLog
       ELSE /\ rt' = [rt EXCEPT ![r].cancelled = TRUE, ![r].pc = "ended"]
            /\ stderrLog' = IF rt[r].err = "" THEN stderrLog
                            ELSE report(r[1], r[2])
            /\ UNCHANGED daemon
    /\ UNCHANGED <<mainCancelled, cleanupMux, cleanupDone, lockFile,
                   ioWg, cl, sess, cmd, cpc, cur, it, out, active, snap>>
    /\ UNCHANGED aux


\* ----------------------------------------------------------------- sessions

\* register: refused once the root context is done; otherwise an id is taken,
\* the FIFOs are made (ioWg.Add) and serve is started.  Sessions are numbered
\* in the order they register.
Register(c) ==
    /\ daemon = "up"
    /\ ~mainCancelled
    /\ sess[c] = None
    /\ \A d \in Cmds : d < c => sess[d] # None
    /\ sess' = [sess EXCEPT ![c] = "open"]
    /\ ioWg' = ioWg + 1
    /\ UNCHANGED <<daemon, mainCancelled, cleanupMux, cleanupDone, lockFile,
                   cl, cmd, cpc, cur, it, out, active, rt, stderrLog, snap>>
    /\ UNCHANGED aux

\* executeRun's filter: the routes of the config a run command starts, or
\* "route not defined".
selectedIgnoringDefault(x) ==
    IF x.Route # ""
    THEN (IF x.Route \in DOMAIN x.Config THEN {x.Route} ELSE {})
    ELSE DOMAIN x.Config
selected(x) ==
    IF x.Route # ""
    THEN (IF x.Route \in DOMAIN x.Config THEN {x.Route} ELSE {})
    ELSE {n \in DOMAIN x.Config : x.Config[n].Default}

routeDefined(x) == x.Route = "" \/ x.Route \in DOMAIN x.Config

\* executeRun's search of the proc argument: the index of the first proc of
\* the route whose name it is, or 0.
procIndexFirst(procs, name) == 1
procIndex(procs, name) ==
    IF \E i \in 1..Len(procs) : procs[i].Name = name
    THEN CHOOSE i \in 1..Len(procs) :
            /\ procs[i].Name = name
            /\ \A j \in 1..(i - 1) : procs[j].Name # name
    ELSE 0

\* The error executeRun's filter returns, "" for none.
filterError(x) ==
    IF x.Route = "" THEN ""
    ELSE IF x.Route \notin DOMAIN x.Config THEN "route not defined"
    ELSE IF x.Proc # "" /\ procIndex(x.Config[x.Route].Procs, x.Proc) = 0
         THEN "process not defined"
         ELSE ""

\* The procs of a selected route the command runs: the one of the proc
\* argument, or all.
selectedProcs(x, n) ==
    IF x.Route # "" /\ x.Proc # ""
    THEN <<x.Config[n].Procs[procIndex(x.Config[n].Procs, x.Proc)]>>
    ELSE x.Config[n].Procs

\* The number of route instances a command starts.
planned(x) ==
    IF x.Sw \in {CmdRun, CmdRestart} /\ filterError(x) = ""
    THEN Cardinality(selected(x))
    ELSE 0

RECURSIVE plannedBy(_)
plannedBy(cs) ==
    IF cs = {} THEN 0
    ELSE LET c == CHOOSE d \in cs : TRUE
         IN  planned(cmd[c]) + plannedBy(cs \ {c})

\* command.run: the first position of each switch.
firstPc(sw) ==
    CASE sw = CmdExit -> "exit"
      [] sw = CmdKill -> "kill"
      [] sw = CmdList -> "list"
      [] sw = CmdRestart -> "kill"
      [] OTHER -> "run"

\* serve: the pipes are open and the client's Command, one of ins, is
\* decoded.
CmdDecode(c, ins) ==
    /\ daemon = "up"
    /\ sess[c] = "open"
    /\ \E in \in ins :
         LET x == clientCmd(in[1], in[2], in[3], in[4])
         IN  /\ plannedBy(Cmds) + planned(x) <= MaxRoutes
             /\ cmd' = [cmd EXCEPT ![c] = x]
             /\ cpc' = [cpc EXCEPT ![c] = firstPc(x.Sw)]
    /\ sess' = [sess EXCEPT ![c] = "serving"]
    /\ UNCHANGED <<daemon, mainCancelled, cleanupMux, cleanupDone, lockFile,
                   ioWg, cl, cur, it, out, active, rt, stderrLog, snap>>
    /\ UNCHANGED aux

CmdStart(c) == CmdDecode(c, Inputs)

\* serve: the root context is done before the pipes are open; serve returns
\* and its deferred clean runs (ioWg.Done).
SessionAbort(c) ==
    /\ daemon = "up"
    /\ sess[c] = "open"
    /\ mainCancelled
    /\ sess' = [sess EXCEPT ![c] = "closed"]
    /\ ioWg' = ioWg - 1
    /\ UNCHANGED <<daemon, mainCancelled, cleanupMux, cleanupDone, lockFile,
                   cl, cmd, cpc, cur, it, out, active, rt, stderrLog, snap>>
    /\ UNCHANGED aux

\* serve: the command returned; the pipes are closed once the client closed
\* its end, and clean runs (ioWg.Done).  What the command wrote is with the
\* client, and its history is dropped.
SessionEnd(c) ==
    /\ daemon = "up"
    /\ sess[c] = "serving"
    /\ cpc[c] = "returned"
    /\ sess' = [sess EXCEPT ![c] = "closed"]
    /\ cpc' = [cpc EXCEPT ![c] = "closed"]
    /\ out' = [out EXCEPT ![c] = <<>>]
    /\ snap' = [snap EXCEPT ![c] = NoSnap]
    /\ ioWg' = ioWg - 1
    /\ UNCHANGED <<daemon, mainCancelled, cleanupMux, cleanupDone, lockFile,
                   cl, cmd, cur, it, active, rt, stderrLog>>
    /\ UNCHANGED aux

\* ------------------------------------------------------------- executeRun

\* newRoute
newRoute(namespace, cfgs) ==
    [NoRoute EXCEPT !.pc = "new", !.namespace = namespace,
                    !.tasks = newRouteTasks(cfgs)]

\* executeRun up to wg.Wait: one goroutine per selected route.
RunSpawn(c) ==
    /\ daemon = "up"
    /\ cpc[c] = "run"
    /\ IF filterError(cmd[c]) = ""
       THEN /\ rt' = [r \in RouteIds |->
                        IF r[1] = c /\ r[2] \in selected(cmd[c])
                        THEN newRoute(cmd[c].Config[r[2]].Namespace,
                                      selectedProcs(cmd[c], r[2]))
                        ELSE rt[r]]
            /\ cpc' = [cpc EXCEPT ![c] = "run_wait"]
            /\ UNCHANGED cmd
       ELSE /\ cpc' = [cpc EXCEPT ![c] = "returned"]
            /\ cmd' = [cmd EXCEPT ![c].Err = filterError(cmd[c])]
            /\ UNCHANGED rt
    /\ UNCHANGED <<daemon, mainCancelled, cleanupMux, cleanupDone, lockFile,
                   ioWg, cl, sess, cur, it, out, active, stderrLog, snap>>
    /\ UNCHANGED aux

\* executeRun's wait group is at zero: every goroutine of the command is
\* through.
wgZeroAlways(c) == TRUE
wgZero(c) == \A n \in Names : rt[<<c, n>>].pc \in {None, "ended"}

\* executeRun: wg.Wait returns.
RunReturn(c) ==
    /\ daemon = "up"
    /\ cpc[c] = "run_wait"
    /\ wgZero(c)
    /\ cpc' = [cpc EXCEPT ![c] = "returned"]
    /\ UNCHANGED <<daemon, mainCancelled, cleanupMux, cleanupDone, lockFile,
                   ioWg, cl, sess, cmd, cur, it, out, active, rt, stderrLog,
                   snap>>
    /\ UNCHANGED aux

\* ------------------------------------------------- executeKill, executeList

\* History, taken at the moment a command begins.  For each route instance:
\* whether it is registered; a list command also notes whether it has ended
\* and which proc it is executing (idx > 0).
registered(r) ==
    /\ rt[r].pc \notin {None, "new"}
    /\ active[<<rt[r].namespace, r[2]>>] = r

statusOf(r, sw) ==
    IF registered(r)
    THEN [st |-> "reg",
          idx |-> IF sw = CmdList /\ rt[r].pc \in {"start", "wait", "ret"}
                  THEN rt[r].idx ELSE 0]
    ELSE IF sw = CmdList /\ rt[r].pc \in {"ended", "panicked"}
    THEN [st |-> "ended", idx |-> 0]
    ELSE [st |-> "no", idx |-> 0]

snapshot(sw) == [r \in RouteIds |-> statusOf(r, sw)]

\* The position after executeKill: executeRestart goes on with executeRun.
afterKill(sw) == IF sw = CmdRestart THEN "run" ELSE "returned"

\* The position of the callback a range calls: executeList's or executeKill's.
fnPc(sw) == IF sw = CmdList THEN "list_read" ELSE "kill_cancel"
afterRange(sw) == IF sw = CmdList THEN "returned" ELSE afterKill(sw)

\* executeKill and executeList, up to the first route they work on.  With a
\* route argument: activeGet.  Without: activeRange takes the mutex, ranges
\* over the namespace's map and releases the mutex with the first entry in hand.
RangeBegin(c) ==
    /\ daemon = "up"
    /\ cpc[c] \in {"kill", "list"}
    /\ snap' = [snap EXCEPT ![c] = snapshot(cmd[c].Sw)]
    /\ LET x == cmd[c]
           present == nsNames(active, x.Namespace)
       IN  IF x.Route # ""
           THEN /\ cur' = [cur EXCEPT ![c] = activeGet(active, x.Namespace, x.Route)]
                /\ cpc' = [cpc EXCEPT ![c] =
                            IF cur'[c] = NoRouteId THEN afterRange(x.Sw) ELSE fnPc(x.Sw)]
                /\ UNCHANGED it
           ELSE IF present = {}
           THEN /\ cpc' = [cpc EXCEPT ![c] = afterRange(x.Sw)]
                /\ UNCHANGED <<cur, it>>
           ELSE \E n \in present :
                /\ cur' = [cur EXCEPT ![c] = activeGet(active, x.Namespace, n)]
                /\ it' = [it EXCEPT ![c] = [ns |-> x.Namespace,
                                            must |-> present \ {n},
                                            may |-> {}, att |-> TRUE]]
                /\ cpc' = [cpc EXCEPT ![c] = fnPc(x.Sw)]
    /\ UNCHANGED <<daemon, mainCancelled, cleanupMux, cleanupDone, lockFile,
                   ioWg, cl, sess, cmd, out, active, rt, stderrLog>>
    /\ UNCHANGED aux

\* activeRange takes the mutex again after the callback: the next entry, or
\* the end of the range.  An entry that was there from the start and is still
\* there is produced; one inserted meanwhile may be produced or skipped.
RangeNext(c) ==
    /\ daemon = "up"
    /\ cpc[c] = "range_next"
    /\ \/ \E n \in it[c].must \cup it[c].may :
            /\ cur' = [cur EXCEPT ![c] = activeGet(active, it[c].ns, n)]
            /\ it' = [it EXCEPT ![c].must = @ \ {n}, ![c].may = @ \ {n}]
            /\ cpc' = [cpc EXCEPT ![c] = fnPc(cmd[c].Sw)]
       \/ /\ it[c].must = {}
          /\ cur' = [cur EXCEPT ![c] = NoRouteId]
          /\ it' = [it EXCEPT ![c] = NoIt]
          /\ cpc' = [cpc EXCEPT ![c] = afterRange(cmd[c].Sw)]
    /\ UNCHANGED <<daemon, mainCancelled, cleanupMux, cleanupDone, lockFile,
                   ioWg, cl, sess, cmd, out, active, rt, stderrLog, snap>>
    /\ UNCHANGED aux

\* executeKill's callback: rt.cancel().
KillCancel(c) ==
    /\ daemon = "up"
    /\ cpc[c] = "kill_cancel"
    /\ rt' = [rt EXCEPT ![cur[c]].cancelled = TRUE]
    /\ cpc' = [cpc EXCEPT ![c] = "kill_await"]
    /\ UNCHANGED <<daemon, mainCancelled, cleanupMux, cleanupDone, lockFile,
                   ioWg, cl, sess, cmd, cur, it, out, active, stderrLog, snap>>
    /\ UNCHANGED aux

\* <-rt.done returns.
doneClosedAlways(r) == TRUE
doneClosed(r) == rt[r].done

\* executeKill's callback: <-rt.done.
KillAwait(c) ==
    /\ daemon = "up"
    /\ cpc[c] = "kill_await"
    /\ doneClosed(cur[c])
    /\ cpc' = [cpc EXCEPT ![c] = IF cmd[c].Route # "" THEN afterKill(cmd[c].Sw)
                                 ELSE "range_next"]
    /\ cur' = [cur EXCEPT ![c] = IF cmd[c].Route # "" THEN NoRouteId ELSE @]
    /\ UNCHANGED <<daemon, mainCancelled, cleanupMux, cleanupDone, lockFile,
                   ioWg, cl, sess, cmd, it, out, active, rt, stderrLog, snap>>
    /\ UNCHANGED aux

\* route.String: name|active.  The line is kept with the instance it is of.
routeString(r) == [of |-> r, name |-> r[2], active |-> rt[r].active]

\* executeList's callback (or, with a route argument, its second half): the
\* route's line is appended.  The lines are written when executeList returns.
ListRead(c) ==
    /\ daemon = "up"
    /\ cpc[c] = "list_read"
    /\ out' = [out EXCEPT ![c] = Append(@, routeString(cur[c]))]
    /\ cpc' = [cpc EXCEPT ![c] = IF cmd[c].Route # "" THEN "returned"
                                 ELSE "range_next"]
    /\ cur' = [cur EXCEPT ![c] = IF cmd[c].Route # "" THEN NoRouteId ELSE @]
    /\ UNCHANGED <<daemon, mainCancelled, cleanupMux, cleanupDone, lockFile,
                   ioWg, cl, sess, cmd, it, active, rt, stderrLog, snap>>
    /\ UNCHANGED aux

\* ------------------------------------------------------ executeExit, cleanup

\* executeExit: go cleanup(), then <-routesDone.
ExitRun(c) ==
    /\ daemon = "up"
    /\ cpc[c] = "exit"
    /\ routesDone
    /\ snap' = [snap EXCEPT ![c] = snapshot(cmd[c].Sw)]
    /\ cl' = [cl EXCEPT ![c] = "start"]
    /\ cpc' = [cpc EXCEPT ![c] = "returned"]
    /\ UNCHANGED <<daemon, mainCancelled, cleanupMux, cleanupDone, lockFile,
                   ioWg, sess, cmd, cur, it, out, active, rt, stderrLog>>
    /\ UNCHANGED aux

\* cleanup's select: cleanupDone is closed already.
alreadyCleanNever == FALSE
alreadyClean == cleanupDone

\* cleanup: the mutex is taken; a no-op if cleanupDone is closed, mainCancel
\* otherwise.
CleanupEnter(t) ==
    /\ daemon = "up"
    /\ cl[t] = "start"
    /\ cleanupMux = 0
    /\ IF alreadyClean
       THEN /\ cl' = [cl EXCEPT ![t] = "noop"]
            /\ UNCHANGED <<cleanupMux, mainCancelled>>
       ELSE /\ cl' = [cl EXCEPT ![t] = "wait"]
            /\ cleanupMux' = t
            /\ mainCancelled' = TRUE
    /\ UNCHANGED <<daemon, cleanupDone, lockFile, ioWg, sess, cmd, cpc, cur,
                   it, out, active, rt, stderrLog, snap>>
    /\ UNCHANGED aux

\* cleanup: ioWg.Wait and <-routesDone return; the lock file is removed and
\* cleanupDone closed.
CleanupFinish(t) ==
    /\ daemon = "up"
    /\ cl[t] = "wait"
    /\ ioWg = 0
    /\ routesDone
    /\ lockFile' = FALSE
    /\ cleanupDone' = TRUE
    /\ cleanupMux' = 0
    /\ cl' = [cl EXCEPT ![t] = "done"]
    /\ UNCHANGED <<daemon, mainCancelled, ioWg, sess, cmd, cpc, cur, it, out,
                   active, rt, stderrLog, snap>>
    /\ UNCHANGED aux

\* Run (dedicated server): <-cleanupDone returns, the deferred cleanup is a
\* no-op and the process exits.
ServerExit ==
    /\ daemon = "up"
    /\ cleanupDone
    /\ cleanupMux = 0
    /\ daemon' = "exited"
    /\ UNCHANGED <<mainCancelled, cleanupMux, cleanupDone, lockFile, ioWg, cl,
                   sess, cmd, cpc, cur, it, out, active, rt, stderrLog, snap>>
    /\ UNCHANGED aux

Next ==
    \/ \E c \in Cmds :
         \/ Register(c) \/ CmdStart(c) \/ SessionAbort(c) \/ SessionEnd(c)
         \/ RunSpawn(c) \/ RunReturn(c)
         \/ RangeBegin(c) \/ RangeNext(c) \/ KillCancel(c) \/ KillAwait(c)
         \/ ListRead(c)
         \/ ExitRun(c) \/ CleanupEnter(c) \/ CleanupFinish(c)
    \/ \E r \in RouteIds :
         \/ RouteRegister(r) \/ RouteNext(r) \/ ProcStart(r) \/ ChildExit(r)
         \/ ProcCancel(r) \/ ProcReap(r) \/ ProcReturn(r)
         \/ DeferRemove(r) \/ DeferClose(r) \/ RouteReturn(r)
    \/ ServerExit

Spec == Init /\ [][Next]_vars


\* ------------------------------------------------------- the server's Run

\* The aux variables other than srv.
auxNotSrv == <<inv, idActive, idNext, idOf, cli, fifo, ses, aux2>>

\* The number of routes the server's own run command starts (its default
\* routes: the server reads manifest M1).
ownRoutes == Cardinality({n \in Names : DecodeConfig("M1").Routes[n].Default})

\* The commands the clients send to the server while it is looked at on its
\* own: exit, and a kill of a route that is not running.
SrvInputs == {<<CmdExit, "M1", "", "">>, <<CmdKill, "M1", "r1", "">>}

\* Run, after go sigint() and defer cleanup(): the switch on lib.ArgSwitch.
\* A dedicated server waits for cleanupDone; otherwise the manifest is decoded
\* (on error Run returns) and the run command is executed on the root context.
RunBegin ==
    /\ daemon = "up"
    /\ srv.pc = "main"
    /\ IF srv.sw = CmdServer
       THEN srv' = [srv EXCEPT !.pc = "await"]
       ELSE \/ srv' = [srv EXCEPT !.pc = "return"]
            \/ srv' = [srv EXCEPT !.pc = "own", !.own = ownRoutes]
    /\ UNCHANGED <<core, auxNotSrv>>

\* A route of the server's own command is through (it finished, failed, or
\* was cancelled with the root context).
OwnRouteEnd ==
    /\ daemon = "up"
    /\ srv.own > 0
    /\ srv' = [srv EXCEPT !.own = @ - 1]
    /\ UNCHANGED <<core, auxNotSrv>>

\* Run: cmd.run returns when the own routes are through.
OwnReturn ==
    /\ daemon = "up"
    /\ srv.pc = "own"
    /\ srv.own = 0
    /\ srv' = [srv EXCEPT !.pc = "iowait"]
    /\ UNCHANGED <<core, auxNotSrv>>

\* Run: ioWg.Wait returns.
RunIoWait ==
    /\ daemon = "up"
    /\ srv.pc = "iowait"
    /\ ioWg = 0
    /\ srv' = [srv EXCEPT !.pc = "return"]
    /\ UNCHANGED <<core, auxNotSrv>>

\* Run (dedicated server): <-cleanupDone returns.
RunAwait ==
    /\ daemon = "up"
    /\ srv.pc = "await"
    /\ cleanupDone
    /\ srv' = [srv EXCEPT !.pc = "return"]
    /\ UNCHANGED <<core, auxNotSrv>>

\* Run returns: the deferred cleanup is called.
RunDefer ==
    /\ daemon = "up"
    /\ srv.pc = "return"
    /\ srv' = [srv EXCEPT !.pc = "defer"]
    /\ cl' = [cl EXCEPT ![DeferT] = "start"]
    /\ UNCHANGED <<daemon, mainCancelled, cleanupMux, cleanupDone, lockFile,
                   ioWg, sess, cmd, cpc, cur, it, out, active, rt, stderrLog,
                   snap, auxNotSrv>>

\* The deferred cleanup returned: the process exits.
RunExit ==
    /\ daemon = "up"
    /\ srv.pc = "defer"
    /\ cl[DeferT] \in {"done", "noop"}
    /\ daemon' = "exited"
    /\ srv' = [srv EXCEPT !.pc = "exit"]
    /\ UNCHANGED <<mainCancelled, cleanupMux, cleanupDone, lockFile, ioWg, cl,
                   sess, cmd, cpc, cur, it, out, active, rt, stderrLog, snap,
                   auxNotSrv>>

\* sigint: the signal arrives and cleanup is called.
Sigint ==
    /\ daemon = "up"
    /\ cl[SigT] = "idle"
    /\ cl' = [cl EXCEPT ![SigT] = "start"]
    /\ UNCHANGED <<daemon, mainCancelled, cleanupMux, cleanupDone, lockFile,
                   ioWg, sess, cmd, cpc, cur, it, out, active, rt, stderrLog,
                   snap, aux>>

\* Run's goroutine: http.ListenAndServe returns an error (the port is taken,
\* say); the error is printed and os.Exit(1) ends the process.
HttpFatal ==
    /\ daemon = "up"
    /\ daemon' = "exited"
    /\ srv' = [srv EXCEPT !.http = "failed"]
    /\ UNCHANGED <<mainCancelled, cleanupMux, cleanupDone, lockFile, ioWg, cl,
                   sess, cmd, cpc, cur, it, out, active, rt, stderrLog, snap,
                   auxNotSrv>>

\* register, its select: the root context is not done.
RegisterCheck(c) ==
    /\ daemon = "up"
    /\ ~mainCancelled
    /\ sess[c] = None
    /\ \A d \in Cmds : d < c => sess[d] # None
    /\ sess' = [sess EXCEPT ![c] = "checked"]
    /\ UNCHANGED <<daemon, mainCancelled, cleanupMux, cleanupDone, lockFile,
                   ioWg, cl, cmd, cpc, cur, it, out, active, rt, stderrLog,
                   snap, aux>>

\* register, the rest: getId, setup (ioWg.Add) and go serve.
RegisterSetup(c) ==
    /\ daemon = "up"
    /\ sess[c] = "checked"
    /\ sess' = [sess EXCEPT ![c] = "open"]
    /\ ioWg' = ioWg + 1
    /\ UNCHANGED <<daemon, mainCancelled, cleanupMux, cleanupDone, lockFile,
                   cl, cmd, cpc, cur, it, out, active, rt, stderrLog, snap,
                   aux>>

SrvCmdStart(c) == CmdDecode(c, SrvInputs)

InitSrv ==
    /\ lockFile = TRUE
    /\ InitDaemon
    /\ srv \in {[NoSrv EXCEPT !.sw = sw, !.pc = "main"] : sw \in {CmdServer, CmdRun}}
    /\ InitLockIdle
    /\ InitIdsIdle
    /\ InitFifoIdle
    /\ InitAux2

NextSrv ==
    \/ RunBegin \/ OwnRouteEnd \/ OwnReturn \/ RunIoWait \/ RunAwait
    \/ RunDefer \/ RunExit \/ Sigint \/ HttpFatal
    \/ \E c \in Cmds :
         \/ RegisterCheck(c) \/ RegisterSetup(c) \/ SrvCmdStart(c)
         \/ SessionAbort(c) \/ SessionEnd(c) \/ RangeBegin(c) \/ ExitRun(c)
    \/ \E t \in Triggers : CleanupEnter(t) \/ CleanupFinish(t)

SpecSrv == InitSrv /\ [][NextSrv]_vars


\* ------------------------------------------------- op.Run: the lock file

Invs == 1..NumInv

\* The aux variables other than inv.
auxNotInv == <<srv, idActive, idNext, idOf, cli, fifo, ses, aux2>>

\* The daemon's insides, which rest while invocations are looked at.
coreNotLock == <<daemon, mainCancelled, cleanupMux, cleanupDone, ioWg, cl,
                 sess, cmd, cpc, cur, it, out, active, rt, stderrLog, snap>>

\* os.OpenFile with O_CREATE|O_EXCL fails with ErrExist when the file is there.
createFailsNever(present) == FALSE
createFails(present) == present

\* op.Run: the lock file is created, which makes the invocation the server, or
\* it exists, which makes it a client.
LockAcquire(i) ==
    /\ inv[i] = "start"
    /\ IF createFails(lockFile)
       THEN /\ inv' = [inv EXCEPT ![i] = "client"]
            /\ UNCHANGED lockFile
       ELSE /\ inv' = [inv EXCEPT ![i] = "server"]
            /\ lockFile' = TRUE
    /\ UNCHANGED <<coreNotLock, auxNotInv>>

\* op.Run: the creation fails with another error than ErrExist (the workdir
\* cannot be written, say): the error is printed and the invocation is over.
LockError(i) ==
    /\ inv[i] = "start"
    /\ inv' = [inv EXCEPT ![i] = "failed"]
    /\ UNCHANGED <<lockFile, coreNotLock, auxNotInv>>

\* The server's cleanup removes the lock file.
SrvCleanup(i) ==
    /\ inv[i] = "server"
    /\ inv' = [inv EXCEPT ![i] = "cleaned"]
    /\ lockFile' = FALSE
    /\ UNCHANGED <<coreNotLock, auxNotInv>>

\* The server process exits: after its cleanup, or by os.Exit without it.
SrvExit(i) ==
    /\ inv[i] \in {"server", "cleaned"}
    /\ inv' = [inv EXCEPT ![i] = IF inv[i] = "server" THEN "gone" ELSE "exited"]
    /\ UNCHANGED <<lockFile, coreNotLock, auxNotInv>>

\* A client is through.
CliExit(i) ==
    /\ inv[i] = "client"
    /\ inv' = [inv EXCEPT ![i] = "exited"]
    /\ UNCHANGED <<lockFile, coreNotLock, auxNotInv>>

InitLock ==
    /\ lockFile = FALSE
    /\ InitDaemon
    /\ inv = [i \in Invs |-> "start"]
    /\ InitSrvIdle
    /\ InitIdsIdle
    /\ InitFifoIdle
    /\ InitAux2

NextLock ==
    \E i \in Invs :
        \/ LockAcquire(i) \/ LockError(i) \/ SrvCleanup(i) \/ SrvExit(i)
        \/ CliExit(i)

SpecLock == InitLock /\ [][NextLock]_vars


\* ------------------------------------------------------- the client id pool

Users == 1..NumUsers
Ids == 0..(IdSpace - 1)

\* The aux variables other than the id pool's.
auxNotIds == <<srv, inv, cli, fifo, ses, aux2>>

\* getId's test: the id is in idActive.
idTakenNever(a, n) == FALSE
idTaken(a, n) == n \in a

\* getId's loop: idNext is incremented (a byte: it wraps) until it is free.
RECURSIVE scan(_, _)
scan(a, n) == IF idTaken(a, n) THEN scan(a, (n + 1) % IdSpace) ELSE n

\* idMux is held: a register call is inside getId.
idMuxHeld == \E v \in Users : idOf[v].pc = "getid"

\* register calls getId, which locks idMux.
GetIdCall(u) ==
    /\ idOf[u].pc = "idle"
    /\ ~idMuxHeld
    /\ idOf' = [idOf EXCEPT ![u].pc = "getid"]
    /\ UNCHANGED <<core, idActive, idNext, auxNotIds>>

\* getId's loop comes to a free id, marks it and returns it.  With every id
\* taken the loop never ends.
GetId(u) ==
    /\ idOf[u].pc = "getid"
    /\ idActive # Ids
    /\ idNext' = scan(idActive, idNext)
    /\ idActive' = idActive \cup {idNext'}
    /\ idOf' = [idOf EXCEPT ![u] = [pc |-> "setup", id |-> idNext']]
    /\ UNCHANGED <<core, auxNotIds>>

\* register: setup makes the three FIFOs and serve is started.
SetupOk(u) ==
    /\ idOf[u].pc = "setup"
    /\ idOf' = [idOf EXCEPT ![u].pc = "serving"]
    /\ UNCHANGED <<core, idActive, idNext, auxNotIds>>

\* register: setup fails (Mkfifo); register returns, the id stays in idActive.
SetupFail(u) ==
    /\ idOf[u].pc = "setup"
    /\ idOf' = [idOf EXCEPT ![u] = [pc |-> "idle", id |-> 0]]
    /\ UNCHANGED <<core, idActive, idNext, auxNotIds>>

\* serve's deferred clean: the FIFOs are removed and deleteId, under idMux,
\* frees the id.
Clean(u) ==
    /\ idOf[u].pc = "serving"
    /\ ~idMuxHeld
    /\ idActive' = idActive \ {idOf[u].id}
    /\ idOf' = [idOf EXCEPT ![u] = [pc |-> "idle", id |-> 0]]
    /\ UNCHANGED <<core, idNext, auxNotIds>>

InitIds ==
    /\ lockFile = TRUE
    /\ InitDaemon
    /\ idActive = {}
    /\ idNext = 0
    /\ idOf = [u \in Users |-> [pc |-> "idle", id |-> 0]]
    /\ InitSrvIdle
    /\ InitLockIdle
    /\ InitFifoIdle
    /\ InitAux2

NextIds ==
    \E u \in Users :
        GetIdCall(u) \/ GetId(u) \/ SetupOk(u) \/ SetupFail(u) \/ Clean(u)

SpecIds == InitIds /\ [][NextIds]_vars


\* ------------------------------------------------- cancellation of a proc

\* What the timer set by the cancel goroutine does when its 10 s are over:
\* x.cmd.Process.Kill().
graceTimerIdle(ev) == ev
graceTimer(ev) == Append(ev, "SIGKILL")

\* The timer fires: the child has been signalled and cmd.Wait has not
\* returned (t.Stop comes after it; past it, Kill sends nothing).
TimerFire(r) ==
    /\ daemon = "up"
    /\ rt[r].pc = "wait"
    /\ rt[r].sigint
    /\ "SIGKILL" \notin {rt[r].ev[i] : i \in 1..Len(rt[r].ev)}
    /\ rt' = [rt EXCEPT ![r].ev = graceTimer(@)]
    /\ UNCHANGED <<daemon, mainCancelled, cleanupMux, cleanupDone, lockFile,
                   ioWg, cl, sess, cmd, cpc, cur, it, out, active, stderrLog,
                   snap, aux>>

\* A child that was sent SIGKILL exits, whatever it does with SIGINT.
ChildKilled(r) ==
    /\ daemon = "up"
    /\ rt[r].pc = "wait"
    /\ rt[r].child = "running"
    /\ "SIGKILL" \in {rt[r].ev[i] : i \in 1..Len(rt[r].ev)}
    /\ rt' = [rt EXCEPT ![r].child = "exited"]
    /\ UNCHANGED <<daemon, mainCancelled, cleanupMux, cleanupDone, lockFile,
                   ioWg, cl, sess, cmd, cpc, cur, it, out, active, stderrLog,
                   snap, aux>>

\* The commands of the clients while cancellation is looked at: a run of r1,
\* whose input file is there, and kills of it, by name and by namespace.
CancelInputs ==
    {<<CmdRun, "M2", "r1", "">>, <<CmdKill, "M2", "r1", "">>,
     <<CmdKill, "M2", "", "">>}

CancelCmdStart(c) == CmdDecode(c, CancelInputs)

NextCancel ==
    \/ \E c \in Cmds :
         \/ Register(c) \/ CancelCmdStart(c) \/ SessionEnd(c)
         \/ RunSpawn(c) \/ RunReturn(c)
         \/ RangeBegin(c) \/ RangeNext(c) \/ KillCancel(c) \/ KillAwait(c)
    \/ \E r \in RouteIds :
         \/ RouteRegister(r) \/ RouteNext(r) \/ ProcStart(r) \/ ChildExit(r)
         \/ ProcCancel(r) \/ TimerFire(r) \/ ChildKilled(r)
         \/ ProcReap(r) \/ ProcReturn(r)
         \/ DeferRemove(r) \/ DeferClose(r) \/ RouteReturn(r)

SpecCancel == Init /\ [][NextCancel]_vars

\* The goroutines of the daemon get to run, the timer fires when its time is
\* over and a killed child dies.  Nothing is assumed of the clients, nor of a
\* child that has not been killed.
FairCancel ==
    /\ \A r \in RouteIds :
         /\ WF_vars(RouteRegister(r)) /\ WF_vars(RouteNext(r))
         /\ WF_vars(ProcStart(r)) /\ WF_vars(ProcCancel(r))
         /\ WF_vars(TimerFire(r)) /\ WF_vars(ChildKilled(r))
         /\ WF_vars(ProcReap(r)) /\ WF_vars(ProcReturn(r))
         /\ WF_vars(DeferRemove(r)) /\ WF_vars(DeferClose(r))
         /\ WF_vars(RouteReturn(r))
    /\ \A c \in Cmds :
         /\ WF_vars(KillCancel(c)) /\ WF_vars(KillAwait(c))
         /\ WF_vars(RangeNext(c))

SpecCancelFair == SpecCancel /\ FairCancel


\* ------------------------------------------- the arguments of a run command

\* The commands of the clients while the arguments of run are looked at: runs
\* of M3 with no argument, with a route (default or not, defined or not), with
\* a route and a proc (defined or not), and kills of what they started.
RunInputs ==
    ({CmdRun} \X {"M3"} \X {"", "r1", "r2", "r3"} \X {""})
    \cup ({CmdRun} \X {"M3"} \X {"r1"} \X {"p1", "p" \o ToString(NumProcs), "px"})
    \cup ({CmdKill} \X {"M3"} \X {"", "r1"} \X {""})

RunCmdStart(c) == CmdDecode(c, RunInputs)

NextRun ==
    \/ \E c \in Cmds :
         \/ Register(c) \/ RunCmdStart(c) \/ SessionEnd(c)
         \/ RunSpawn(c) \/ RunReturn(c)
         \/ RangeBegin(c) \/ RangeNext(c) \/ KillCancel(c) \/ KillAwait(c)
    \/ \E r \in RouteIds :
         \/ RouteRegister(r) \/ RouteNext(r) \/ ProcStart(r) \/ ChildExit(r)
         \/ ProcCancel(r) \/ ProcReap(r) \/ ProcReturn(r)
         \/ DeferRemove(r) \/ DeferClose(r) \/ RouteReturn(r)

SpecRun == Init /\ [][NextRun]_vars


\* ------------------------------------------------------------- expandEnv

\* The bytes of the texts: the characters expandEnv looks at, and a letter.
Bytes == {"$", "{", "}", "\\", "a"}
Texts == UNION {[1..n -> Bytes] : n \in 0..MaxText}

\* os.Getenv: the variable a is set, to b; every other name is unset.
Getenv(name) == IF name = <<"a">> THEN <<"b">> ELSE <<>>

\* b[i:j] and b[j], with Go's indices.
slice(b, i, j) == SubSeq(b, i + 1, j)
at(b, j) == b[j + 1]

\* The position of the first closing brace of b at or after jVar, or len(b).
RECURSIVE closing(_, _)
closing(b, jVar) ==
    IF jVar < Len(b) /\ at(b, jVar) # "}" THEN closing(b, jVar + 1) ELSE jVar

\* expandEnv's loop from position j on, i bytes of b being copied, last the
\* byte before and r the result so far.
RECURSIVE expandFrom(_, _, _, _, _)
expandFrom(b, j, i, last, r) ==
    IF j >= Len(b) THEN r \o slice(b, i, Len(b))
    ELSE IF at(b, j) # "$" THEN expandFrom(b, j + 1, i, at(b, j), r)
    ELSE LET copied == r \o slice(b, i, j)
             iVar == j + 1
             jVar == closing(b, iVar + 1)
         IN  IF last = "\\"
             THEN expandFrom(b, j + 1, j + 1, at(b, j),
                             [copied EXCEPT ![Len(copied)] = "$"])
             ELSE IF iVar < Len(b) /\ at(b, iVar) = "{" /\ jVar < Len(b)
             THEN expandFrom(b, jVar + 1, jVar + 1, at(b, jVar),
                             copied \o Getenv(slice(b, iVar + 1, jVar)))
             ELSE expandFrom(b, j + 1, j + 1, at(b, j), copied)

expandEnv(b) == expandFrom(b, 0, 0, "", <<>>)

\* The variables of the other functions.
aux2NotEnv == <<manifest, resolved, pr, activeMux, rng, rts, px, hs>>

\* DecodeConfig: the file is read and expandEnv applied to it.
ExpandEnv ==
    /\ ~expanded.done
    /\ expanded' = [done |-> TRUE, out |-> expandEnv(text)]
    /\ UNCHANGED <<core, aux1, text, aux2NotEnv>>

InitEnv ==
    /\ lockFile = TRUE
    /\ InitDaemon
    /\ InitSrvIdle
    /\ InitLockIdle
    /\ InitIdsIdle
    /\ InitFifoIdle
    /\ text \in Texts
    /\ expanded = NoResult
    /\ InitScopesIdle
    /\ InitProcIdle
    /\ InitRangeIdle
    /\ InitPrefixIdle
    /\ InitShakeIdle

NextEnv == ExpandEnv

SpecEnv == InitEnv /\ [][NextEnv]_vars


\* ------------------------------------------ DecodeConfig: env and var scopes

\* The keys a manifest can declare, in env and in var, and the maps a level
\* can hold: each declared key has the level's own value.
ScopeKeys == {"k1", "k2"}
Decls(level) == {[k \in ks |-> level] : ks \in SUBSET ScopeKeys}

\* The manifests: one route with one proc; top level, route and proc each
\* declare some keys of env and some of var.
Scoped ==
    {[Var |-> tv, Env |-> te,
      Routes |-> [n \in {"r1"} |->
          [Var |-> rv, Env |-> re, Procs |-> <<[Var |-> pv, Env |-> pe]>>]]] :
        tv \in Decls("top"), te \in Decls("top"),
        rv \in Decls("route"), re \in Decls("route"),
        pv \in Decls("proc"), pe \in Decls("proc")}

\* interpretMap: every value of s interpreted on m.
interpretMap(s, m) == [k \in DOMAIN s |-> interpret(s[k], m)]

\* DecodeConfig on the env and var of a manifest: the top-level env is
\* interpreted, then the scopes are rolled out from top to bottom.
rollOut(x) ==
    LET env0 == interpretMap(x.Env, x.Var)
        rolled(route) ==
            LET var == merge(route.Var, x.Var)
                env == interpretMap(merge(route.Env, env0), var)
            IN  [Var |-> var, Env |-> env,
                 Procs |-> [p \in DOMAIN route.Procs |->
                    LET pvar == merge(route.Procs[p].Var, var)
                    IN  [Var |-> pvar,
                         Env |-> interpretMap(merge(route.Procs[p].Env, env),
                                              pvar)]]]
    IN  [Var |-> x.Var, Env |-> env0,
         Routes |-> [n \in DOMAIN x.Routes |-> rolled(x.Routes[n])]]

\* The variables of the other functions.
aux2NotScopes == <<text, expanded, pr, activeMux, rng, rts, px, hs>>

\* DecodeConfig returns the resolved manifest.
RollOut ==
    /\ ~resolved.done
    /\ resolved' = [done |-> TRUE, out |-> rollOut(manifest)]
    /\ UNCHANGED <<core, aux1, manifest, aux2NotScopes>>

InitScopes ==
    /\ lockFile = TRUE
    /\ InitDaemon
    /\ InitSrvIdle
    /\ InitLockIdle
    /\ InitIdsIdle
    /\ InitFifoIdle
    /\ InitEnvIdle
    /\ manifest \in Scoped
    /\ resolved = NoResult
    /\ InitProcIdle
    /\ InitRangeIdle
    /\ InitPrefixIdle
    /\ InitShakeIdle

NextScopes == RollOut

SpecScopes == InitScopes /\ [][NextScopes]_vars


\* ------------------------------------------------ proc.run and its streams

\* The variables of the other functions.
aux2NotProc == <<text, expanded, manifest, resolved, activeMux, rng, rts, px, hs>>

\* The stream configurations of a proc: stdin from a file or not, stdout and
\* stderr collected ("std") or not.
StreamCfgs == [In : {"", OkFile}, Out : {"", "std"}, Err : {"", "std"}]

\* proc.run: cmd.Start; on success the stdin funnel, the two collectors and
\* the cancel goroutine are started and run waits for the collectors.
PStart ==
    /\ pr.pc = "start"
    /\ \/ pr' = [pr EXCEPT !.pc = "copy", !.child = "running",
                           !.cin = "running", !.cout = "running",
                           !.cerr = "running"]
       \/ pr' = [pr EXCEPT !.pc = "returned"]
    /\ UNCHANGED <<core, aux1, aux2NotProc>>

\* The child exits.
PChildExit ==
    /\ pr.child = "running"
    /\ pr' = [pr EXCEPT !.child = "exited"]
    /\ UNCHANGED <<core, aux1, aux2NotProc>>

\* The stdin goroutine is through: inPipe.run returned (nothing to copy, the
\* file is at its end, or the write failed) and the write side is closed.
PCopyIn ==
    /\ pr.cin = "running"
    /\ pr' = [pr EXCEPT !.cin = "done"]
    /\ UNCHANGED <<core, aux1, aux2NotProc>>

\* A collector's copy is over: there is nothing to collect, or the child has
\* exited and its pipe is at its end.
collected(cfg) == cfg = "" \/ pr.child = "exited"

\* The stdout goroutine is through and calls wg.Done.
PCopyOut ==
    /\ pr.cout = "running"
    /\ collected(pr.cfg.Out)
    /\ pr' = [pr EXCEPT !.cout = "done"]
    /\ UNCHANGED <<core, aux1, aux2NotProc>>

\* The stderr goroutine is through and calls wg.Done.
PCopyErr ==
    /\ pr.cerr = "running"
    /\ collected(pr.cfg.Err)
    /\ pr' = [pr EXCEPT !.cerr = "done"]
    /\ UNCHANGED <<core, aux1, aux2NotProc>>

\* proc.run: wg.Wait returns, the wait group counting the stdout and stderr
\* goroutines.
PWgWait ==
    /\ pr.pc = "copy"
    /\ pr.cout = "done" /\ pr.cerr = "done"
    /\ pr' = [pr EXCEPT !.pc = "wait"]
    /\ UNCHANGED <<core, aux1, aux2NotProc>>

\* proc.run: cmd.Wait returns, the child is reaped.
PCmdWait ==
    /\ pr.pc = "wait"
    /\ pr.child = "exited"
    /\ pr' = [pr EXCEPT !.pc = "ret", !.child = "reaped"]
    /\ UNCHANGED <<core, aux1, aux2NotProc>>

\* The proc's context is done.
PCtxDone ==
    /\ pr.pc \in {"copy", "wait"}
    /\ ~pr.done
    /\ pr' = [pr EXCEPT !.done = TRUE]
    /\ UNCHANGED <<core, aux1, aux2NotProc>>

\* The cancel goroutine takes the done case: stdin is closed and the child
\* signalled.
PSignal ==
    /\ pr.pc \in {"copy", "wait"}
    /\ pr.done /\ ~pr.sig
    /\ pr' = [pr EXCEPT !.sig = TRUE]
    /\ UNCHANGED <<core, aux1, aux2NotProc>>

\* proc.run returns what the cancel goroutine hands it.
PReturn ==
    /\ pr.pc = "ret"
    /\ pr' = [pr EXCEPT !.pc = "returned"]
    /\ UNCHANGED <<core, aux1, aux2NotProc>>

InitProc ==
    /\ lockFile = TRUE
    /\ InitDaemon
    /\ InitSrvIdle
    /\ InitLockIdle
    /\ InitIdsIdle
    /\ InitFifoIdle
    /\ InitEnvIdle
    /\ InitScopesIdle
    /\ pr \in {[NoProc EXCEPT !.cfg = cfg] : cfg \in StreamCfgs}
    /\ InitRangeIdle
    /\ InitPrefixIdle
    /\ InitShakeIdle

NextProc ==
    \/ PStart \/ PChildExit \/ PCopyIn \/ PCopyOut \/ PCopyErr
    \/ PWgWait \/ PCmdWait \/ PCtxDone \/ PSignal \/ PReturn

SpecProc == InitProc /\ [][NextProc]_vars


\* ------------------------------------------- activeRange, activeRangeAll

\* The variables of the other functions.
aux2NotRange == <<text, expanded, manifest, resolved, pr, px, hs>>

\* The routes ranged over: two namespaces with the two names each.
RangeNs == {"n1", "n2"}
RKeys == RangeNs \X Names

\* The entry of a route is in the registry until activeRemove deletes it.
inReg(k) == rts[k].st \in {"running", "ending", "locked"}
\* active has a map for the namespace.
nsPresent(ns) == \E n \in Names : inReg(<<ns, n>>)

\* activeRange unlocks activeMux before it calls fn, activeRangeAll before it
\* calls activeRange.
unlocksForFnNever == FALSE
unlocksForFn == TRUE
unlocksForRange == TRUE

\* A route's run is over on its own account: its deferred function is next.
RtFinish(k) ==
    /\ rts[k].st = "running"
    /\ ~rts[k].cancelled
    /\ rts' = [rts EXCEPT ![k].st = "ending"]
    /\ UNCHANGED <<core, aux1, aux2NotRange, activeMux, rng>>

\* A route's context is done and its run returns: its deferred function is
\* next.
RtCancelled(k) ==
    /\ rts[k].st = "running"
    /\ rts[k].cancelled
    /\ rts' = [rts EXCEPT ![k].st = "ending"]
    /\ UNCHANGED <<core, aux1, aux2NotRange, activeMux, rng>>

\* activeRemove: activeMux.Lock().
RtRemoveLock(k) ==
    /\ rts[k].st = "ending"
    /\ activeMux = "free"
    /\ activeMux' = "route"
    /\ rts' = [rts EXCEPT ![k].st = "locked"]
    /\ UNCHANGED <<core, aux1, aux2NotRange, rng>>

\* activeRemove: rt.cancel(), the entry is deleted, the mutex unlocked.
RtRemove(k) ==
    /\ rts[k].st = "locked"
    /\ activeMux' = "free"
    /\ rts' = [rts EXCEPT ![k].st = "removed", ![k].cancelled = TRUE]
    /\ UNCHANGED <<core, aux1, aux2NotRange, rng>>

\* route.run's deferred function: close(x.done).
RtClose(k) ==
    /\ rts[k].st = "removed"
    /\ rts' = [rts EXCEPT ![k].st = "done"]
    /\ UNCHANGED <<core, aux1, aux2NotRange, activeMux, rng>>

\* activeRange: activeMux.Lock(), on entry and after each call of fn.
RgLock ==
    /\ rng.pc = "lock"
    /\ activeMux = "free"
    /\ activeMux' = "range"
    /\ rng' = [rng EXCEPT !.pc = "step"]
    /\ UNCHANGED <<core, aux1, aux2NotRange, rts>>

\* activeRange, one turn of its loop: the range produces an entry of the
\* namespace's map that is there and was not produced yet, the mutex is
\* unlocked and fn called; with no such entry the loop is over, the deferred
\* Unlock runs and activeRange returns.
RgStep ==
    /\ rng.pc = "step"
    /\ LET left == {n \in Names : inReg(<<rng.ns, n>>)
                                  /\ <<rng.ns, n>> \notin rng.seen}
       IN  IF left # {}
           THEN \E n \in left :
                  /\ rng' = [rng EXCEPT !.pc = "fn", !.cur = <<rng.ns, n>>,
                                        !.seen = @ \cup {<<rng.ns, n>>}]
                  /\ activeMux' = IF unlocksForFn THEN "free" ELSE activeMux
           ELSE /\ rng' = [rng EXCEPT !.pc = IF rng.kind = "one"
                                             THEN "finished" ELSE "olock"]
                /\ activeMux' = "free"
    /\ UNCHANGED <<core, aux1, aux2NotRange, rts>>

\* executeKill's fn: rt.cancel().
RgFn ==
    /\ rng.pc = "fn"
    /\ rts' = [rts EXCEPT ![rng.cur].cancelled = TRUE]
    /\ rng' = [rng EXCEPT !.pc = "await"]
    /\ UNCHANGED <<core, aux1, aux2NotRange, activeMux>>

\* executeKill's fn: <-rt.done; fn returns and activeRange locks again.
RgAwait ==
    /\ rng.pc = "await"
    /\ rts[rng.cur].st = "done"
    /\ rng' = [rng EXCEPT !.pc = "lock", !.cur = <<>>]
    /\ UNCHANGED <<core, aux1, aux2NotRange, activeMux, rts>>

\* activeRangeAll: activeMux.Lock(), on entry and after each activeRange.
RgOuterLock ==
    /\ rng.pc = "olock"
    /\ activeMux = "free"
    /\ activeMux' = "range"
    /\ rng' = [rng EXCEPT !.pc = "ostep"]
    /\ UNCHANGED <<core, aux1, aux2NotRange, rts>>

\* activeRangeAll, one turn of its loop: the range produces a namespace that
\* is there and was not produced yet, the mutex is unlocked and activeRange
\* called; with none the loop is over and the deferred Unlock runs.
RgOuterStep ==
    /\ rng.pc = "ostep"
    /\ LET left == {ns \in RangeNs : nsPresent(ns) /\ ns \notin rng.seenNs}
       IN  IF left # {}
           THEN \E ns \in left :
                  /\ rng' = [rng EXCEPT !.pc = "lock", !.ns = ns,
                                        !.seenNs = @ \cup {ns}]
                  /\ activeMux' = IF unlocksForRange THEN "free" ELSE activeMux
           ELSE /\ rng' = [rng EXCEPT !.pc = "finished"]
                /\ activeMux' = "free"
    /\ UNCHANGED <<core, aux1, aux2NotRange, rts>>

\* Some routes are registered and running; a range over namespace n1, or over
\* all namespaces, begins.
InitRange ==
    /\ lockFile = TRUE
    /\ InitDaemon
    /\ InitSrvIdle
    /\ InitLockIdle
    /\ InitIdsIdle
    /\ InitFifoIdle
    /\ InitEnvIdle
    /\ InitScopesIdle
    /\ InitProcIdle
    /\ InitPrefixIdle
    /\ InitShakeIdle
    /\ activeMux = "free"
    /\ rng \in {[NoRange EXCEPT !.kind = "one", !.pc = "lock", !.ns = "n1"],
                [NoRange EXCEPT !.kind = "all", !.pc = "olock"]}
    /\ rts \in [RKeys -> {[st |-> st, cancelled |-> FALSE] :
                              st \in {None, "running"}}]

NextRange ==
    \/ \E k \in RKeys :
         \/ RtFinish(k) \/ RtCancelled(k) \/ RtRemoveLock(k) \/ RtRemove(k)
         \/ RtClose(k)
    \/ RgLock \/ RgStep \/ RgFn \/ RgAwait \/ RgOuterLock \/ RgOuterStep

SpecRange == InitRange /\ [][NextRange]_vars

\* The goroutines of the daemon get to run.  Nothing is assumed of a route
\* that is not cancelled.
FairRange ==
    /\ \A k \in RKeys :
         /\ WF_vars(RtCancelled(k)) /\ WF_vars(RtRemoveLock(k))
         /\ WF_vars(RtRemove(k)) /\ WF_vars(RtClose(k))
    /\ WF_vars(RgLock) /\ WF_vars(RgStep) /\ WF_vars(RgFn) /\ WF_vars(RgAwait)
    /\ WF_vars(RgOuterLock) /\ WF_vars(RgOuterStep)

SpecRangeFair == SpecRange /\ FairRange


\* ------------------------------------------- prefixer

\* The variables of the other functions.
aux2NotPrefix == <<text, expanded, manifest, resolved, pr, activeMux, rng, rts, hs>>

\* The bytes a child writes, and the slices Write is called with.
OutBytes == {"a", "b", "\n"}
Slices == UNION {[1..k -> OutBytes] : k \in 0..MaxWrite}

\* newProc's prefix: route + "|" + cfg.Name + ": ", the two names standing
\* for their bytes.
prefixOf(route, name) == <<route, "|", name, ":", " ">>

\* newPrefixer: a buffer of its own holding the prefix, n its length.
newPrefixer(prefix) ==
    [buf |-> prefix, n |-> Len(prefix), dst |-> <<>>, writes |-> <<>>]

\* prefixer.Write's test on the buffer after the append.
flushesAlways(buf) == TRUE
flushes(buf) == buf[Len(buf)] = "\n"

\* prefixer.Write: b is appended to the buffer; with a last byte other than
\* a newline that is all, else the buffer goes to dst in one Write and is cut
\* back to its first n bytes.
prefixerWrite(x, b) ==
    LET buf == x.buf \o b
    IN  IF ~flushes(buf)
        THEN [x EXCEPT !.buf = buf]
        ELSE [x EXCEPT !.buf = SubSeq(buf, 1, x.n), !.dst = Append(@, buf)]

\* A copier hands the prefixer what it read from the child.
PxWrite ==
    /\ Len(px.writes) < MaxWrites
    /\ \E b \in Slices :
         px' = [prefixerWrite(px, b) EXCEPT !.writes = Append(px.writes, b)]
    /\ UNCHANGED <<core, aux1, aux2NotPrefix>>

InitPrefix ==
    /\ lockFile = TRUE
    /\ InitDaemon
    /\ InitSrvIdle
    /\ InitLockIdle
    /\ InitIdsIdle
    /\ InitFifoIdle
    /\ InitEnvIdle
    /\ InitScopesIdle
    /\ InitProcIdle
    /\ InitRangeIdle
    /\ InitShakeIdle
    /\ px \in {newPrefixer(prefixOf(r, n)) : r \in {"r1", "r2"}, n \in {"p1"}}

NextPrefix == PxWrite

SpecPrefix == InitPrefix /\ [][NextPrefix]_vars


\* ------------------------------------------- a client and its FIFO session

\* The aux variables other than the client's and its session's.
auxNotFifo == <<srv, inv, idActive, idNext, idOf, aux2>>

\* The messages on the input FIFO, by their switch: the client's Command
\* (any switch but cancel), a cancel, and whatever else a peer may write.
MsgCmd == "cmd"
MsgOther == "other"
Msgs == {MsgCmd, CmdCancel, MsgOther}

\* A write on the input FIFO arrives as long as the server has it open.
delivered(m) == IF ses.pc = "cleaned" THEN fifo ELSE Append(fifo, m)

\* cli.Run up to the pipes: the manifest is decoded and the id fetched.
CliConnect ==
    /\ cli.kind = "op" /\ cli.pc = "start"
    /\ cli' = [cli EXCEPT !.pc = "openIn"]
    /\ UNCHANGED <<core, fifo, ses, auxNotFifo>>

\* cli.Run: inPipe is opened (the server has its end open).
CliOpenIn ==
    /\ cli.kind = "op" /\ cli.pc = "openIn"
    /\ cli' = [cli EXCEPT !.pc = "openOut", !.inPipe = TRUE]
    /\ UNCHANGED <<core, fifo, ses, auxNotFifo>>

\* cli.Run: outPipe, then errPipe are opened.
CliOpenOut ==
    /\ cli.kind = "op" /\ cli.pc = "openOut"
    /\ cli' = [cli EXCEPT !.pc = "send"]
    /\ UNCHANGED <<core, fifo, ses, auxNotFifo>>

\* cli.Run: sendCmd(cmd).
CliSend ==
    /\ cli.kind = "op" /\ cli.pc = "send"
    /\ fifo' = delivered(MsgCmd)
    /\ cli' = [cli EXCEPT !.pc = "wait", !.sent = Append(@, MsgCmd)]
    /\ UNCHANGED <<core, ses, auxNotFifo>>

\* sigint: the signal arrives and sendCmd writes a cancel on inPipe, which is
\* nil until cli.Run has opened it (the write then fails).  The goroutine
\* handles one signal.
CliSigint ==
    /\ cli.kind = "op" /\ cli.pc # "closed"
    /\ ~cli.sig
    /\ IF cli.inPipe
       THEN /\ fifo' = delivered(CmdCancel)
            /\ cli' = [cli EXCEPT !.sig = TRUE, !.sent = Append(@, CmdCancel)]
       ELSE /\ cli' = [cli EXCEPT !.sig = TRUE]
            /\ UNCHANGED fifo
    /\ UNCHANGED <<core, ses, auxNotFifo>>

\* cli.Run: wg.Wait returns when the server has closed output and error; the
\* deferred function closes the pipes and the client is gone.
CliDone ==
    /\ cli.kind = "op" /\ cli.pc = "wait"
    /\ ses.pc \in {"barrier", "barrierRead", "closeIn", "cleaned"}
    /\ cli' = [cli EXCEPT !.pc = "closed", !.inPipe = FALSE]
    /\ UNCHANGED <<core, fifo, ses, auxNotFifo>>

\* Another program writes a message on the input FIFO.
PeerWrite(m) ==
    /\ cli.kind = "peer" /\ cli.pc = "wait"
    /\ Len(cli.sent) < MaxMsgs
    /\ fifo' = delivered(m)
    /\ cli' = [cli EXCEPT !.sent = Append(@, m)]
    /\ UNCHANGED <<core, ses, auxNotFifo>>

\* It closes its end.
PeerClose ==
    /\ cli.kind = "peer" /\ cli.pc = "wait"
    /\ cli' = [cli EXCEPT !.pc = "closed", !.inPipe = FALSE]
    /\ UNCHANGED <<core, fifo, ses, auxNotFifo>>

\* The client has all three pipes open, or had.
pipesOpened == cli.pc \in {"send", "wait", "closed"}
\* The client has closed its end of input and nothing is left to read.
atEof == cli.pc = "closed" /\ fifo = <<>>

\* serve: the three pipes are open.
SesOpen ==
    /\ ses.pc = "opening"
    /\ pipesOpened
    /\ ses' = [ses EXCEPT !.pc = "decode"]
    /\ UNCHANGED <<core, cli, fifo, auxNotFifo>>

\* serve: dec.Decode reads what is on the FIFO and takes the first message
\* for the Command, the listener goroutine is started and cmd.run is called;
\* on end of file serve returns and its deferred function closes and cleans.
SesDecode ==
    /\ ses.pc = "decode"
    /\ IF fifo # <<>>
       THEN /\ ses' = [ses EXCEPT !.pc = "run", !.first = Head(fifo),
                                  !.buf = Tail(fifo), !.lis = "started"]
            /\ fifo' = <<>>
       ELSE /\ atEof
            /\ ses' = [ses EXCEPT !.pc = "cleaned"]
            /\ UNCHANGED fifo
    /\ UNCHANGED <<core, cli, auxNotFifo>>

\* What the listener goroutine does with the message it decodes: a cancel
\* cancels the command's context, anything else is dropped.
listenerCancels(ctx, m) == ctx \/ m = CmdCancel

\* serve's listener goroutine calls dec.Decode: a message the decoder has
\* read ahead is decoded at once and the goroutine is over; otherwise the
\* decoder reads inPipe, one read of a file at a time; on a closed file the
\* goroutine is over.
SesListen ==
    /\ ses.lis = "started"
    /\ IF ses.buf # <<>>
       THEN ses' = [ses EXCEPT !.lis = "gone", !.buf = Tail(@),
                               !.ctx = listenerCancels(@, Head(ses.buf))]
       ELSE IF ses.pc = "cleaned"
            THEN ses' = [ses EXCEPT !.lis = "gone"]
            ELSE /\ ses.pc # "barrierRead"
                 /\ ses' = [ses EXCEPT !.lis = "reading"]
    /\ UNCHANGED <<core, cli, fifo, auxNotFifo>>

\* The listener's read returns: its one message is decoded and the goroutine
\* is over.
SesListenRead ==
    /\ ses.lis = "reading"
    /\ IF fifo # <<>>
       THEN /\ ses' = [ses EXCEPT !.lis = "gone", !.buf = Tail(fifo),
                                  !.ctx = listenerCancels(@, Head(fifo))]
            /\ fifo' = <<>>
       ELSE /\ atEof
            /\ ses' = [ses EXCEPT !.lis = "gone"]
            /\ UNCHANGED fifo
    /\ UNCHANGED <<core, cli, auxNotFifo>>

\* serve: cmd.run returns; errPipe and outPipe are closed.
SesReturn ==
    /\ ses.pc = "run"
    /\ ses' = [ses EXCEPT !.pc = "barrier"]
    /\ UNCHANGED <<core, cli, fifo, auxNotFifo>>

\* serve: inPipe.Read(r) is entered, once no other read of inPipe is under
\* way.
SesBarrierRead ==
    /\ ses.pc = "barrier"
    /\ ses.lis # "reading"
    /\ ses' = [ses EXCEPT !.pc = "barrierRead"]
    /\ UNCHANGED <<core, cli, fifo, auxNotFifo>>

\* What ends inPipe.Read(r), r being one byte long: a byte of whatever is on
\* the FIFO, or the end of file.
barrierEnd(q) == IF q # <<>> THEN "byte" ELSE "eof"

\* serve: inPipe.Read(r) returns.
SesBarrier ==
    /\ ses.pc = "barrierRead"
    /\ fifo # <<>> \/ atEof
    /\ ses' = [ses EXCEPT !.pc = "closeIn", !.barrier = barrierEnd(fifo)]
    /\ fifo' = IF fifo # <<>> THEN Tail(fifo) ELSE fifo
    /\ UNCHANGED <<core, cli, auxNotFifo>>

\* serve: inPipe is closed; the deferred clean removes the three FIFOs and
\* frees the id.
SesClean ==
    /\ ses.pc = "closeIn"
    /\ ses' = [ses EXCEPT !.pc = "cleaned"]
    /\ fifo' = <<>>
    /\ UNCHANGED <<core, cli, auxNotFifo>>

InitFifo ==
    /\ lockFile = TRUE
    /\ InitDaemon
    /\ cli \in {NoCli, PeerCli}
    /\ fifo = <<>>
    /\ ses = NoSes
    /\ InitSrvIdle
    /\ InitLockIdle
    /\ InitIdsIdle
    /\ InitAux2

NextFifo ==
    \/ CliConnect \/ CliOpenIn \/ CliOpenOut \/ CliSend \/ CliSigint \/ CliDone
    \/ \E m \in Msgs : PeerWrite(m)
    \/ PeerClose
    \/ SesOpen \/ SesDecode \/ SesListen \/ SesListenRead \/ SesReturn
    \/ SesBarrierRead \/ SesBarrier \/ SesClean

SpecFifo == InitFifo /\ [][NextFifo]_vars


\* ------------------------------------------- the opening of the three FIFOs

\* The variables of the other functions.
aux2NotShake == <<text, expanded, manifest, resolved, pr, activeMux, rng, rts, px>>

\* lib.PipePaths: input, output, error.  The order in which cli.Run and
\* serve's goroutine open them.
Paths == {"input", "output", "error"}
cliOrder == <<"input", "output", "error">>
srvOrder == <<"input", "output", "error">>

\* register has returned: the id is in idActive, setup has made the FIFOs,
\* serve is started and the client has the id.  The daemon is not shutting
\* down.  file is the daemon's end of each FIFO, cfile the client's.
ShakeStart ==
    [down |-> FALSE, linked |-> TRUE, idHeld |-> TRUE, daemon |-> "up",
     cpc |-> "open", ci |-> 1, cblk |-> FALSE, sent |-> FALSE,
     gpc |-> "open", gi |-> 1, gblk |-> FALSE, rep |-> "none",
     spc |-> "select",
     file |-> [f \in Paths |-> "none"], cfile |-> [f \in Paths |-> "none"]]

\* What is left of a set of files once those that are open are closed.
closeAll(files) ==
    [f \in Paths |-> IF files[f] = "open" THEN "closed" ELSE files[f]]

\* SIGINT at the daemon, or an exit command: mainCtx is cancelled.
ShMainCancel ==
    /\ hs # <<>> /\ ~hs.down
    /\ hs' = [hs EXCEPT !.down = TRUE]
    /\ UNCHANGED <<core, aux1, aux2NotShake>>

\* cli.Run calls os.OpenFile on its next path: without the file the call
\* fails, the deferred function closes what is open and the client is gone;
\* with it the call waits for the other end.
ClOpenCall ==
    /\ hs # <<>> /\ hs.cpc = "open" /\ ~hs.cblk
    /\ IF hs.linked
       THEN hs' = [hs EXCEPT !.cblk = TRUE]
       ELSE hs' = [hs EXCEPT !.cpc = "exited", !.cfile = closeAll(@)]
    /\ UNCHANGED <<core, aux1, aux2NotShake>>

\* serve's goroutine calls os.OpenFile on its next path: without the file it
\* sends the error on pipesOpen and is over.
OgOpenCall ==
    /\ hs # <<>> /\ hs.gpc = "open" /\ ~hs.gblk
    /\ IF hs.linked
       THEN hs' = [hs EXCEPT !.gblk = TRUE]
       ELSE hs' = [hs EXCEPT !.gpc = "gone", !.rep = "err"]
    /\ UNCHANGED <<core, aux1, aux2NotShake>>

\* Both ends of a FIFO are being opened: both calls return.
OpenMeet(f) ==
    /\ hs # <<>>
    /\ hs.cblk /\ cliOrder[hs.ci] = f
    /\ hs.gblk /\ srvOrder[hs.gi] = f
    /\ hs' = [hs EXCEPT !.cblk = FALSE, !.gblk = FALSE,
                        !.cfile[f] = "open", !.file[f] = "open",
                        !.ci = IF @ < 3 THEN @ + 1 ELSE @,
                        !.gi = IF @ < 3 THEN @ + 1 ELSE @,
                        !.cpc = IF hs.ci = 3 THEN "send" ELSE @,
                        !.gpc = IF hs.gi = 3 THEN "report" ELSE @]
    /\ UNCHANGED <<core, aux1, aux2NotShake>>

\* serve's goroutine: pipesOpen <- nil (the channel has room for it).
OgReport ==
    /\ hs # <<>> /\ hs.gpc = "report"
    /\ hs' = [hs EXCEPT !.gpc = "gone", !.rep = "ok"]
    /\ UNCHANGED <<core, aux1, aux2NotShake>>

\* cli.Run: the copiers are started and the Command is sent.
ClSend ==
    /\ hs # <<>> /\ hs.cpc = "send"
    /\ hs' = [hs EXCEPT !.cpc = "wait", !.sent = TRUE]
    /\ UNCHANGED <<core, aux1, aux2NotShake>>

\* cli.Run: both copiers have read the end of their pipe, wg.Wait returns,
\* the deferred function closes the pipes and the client is gone.
ClExit ==
    /\ hs # <<>> /\ hs.cpc = "wait"
    /\ hs.file["output"] = "closed" /\ hs.file["error"] = "closed"
    /\ hs' = [hs EXCEPT !.cpc = "exited", !.cfile = closeAll(@)]
    /\ UNCHANGED <<core, aux1, aux2NotShake>>

\* serve's deferred function: the pipes that are open are closed; clean
\* removes the three FIFOs and frees the id.
deferred(h) ==
    [h EXCEPT !.spc = "cleaned", !.file = closeAll(@), !.linked = FALSE,
              !.idHeld = FALSE]

\* serve's select, case <-done: serve returns.
SvDone ==
    /\ hs # <<>> /\ hs.spc = "select"
    /\ hs.down
    /\ hs' = deferred(hs)
    /\ UNCHANGED <<core, aux1, aux2NotShake>>

\* serve's select, case err := <-pipesOpen: on an error serve returns.
SvPipesOpen ==
    /\ hs # <<>> /\ hs.spc = "select"
    /\ hs.rep # "none"
    /\ hs' = IF hs.rep = "err" THEN deferred(hs)
             ELSE [hs EXCEPT !.spc = "decode"]
    /\ UNCHANGED <<core, aux1, aux2NotShake>>

\* serve: dec.Decode has the Command; cmd.run is called.
SvDecode ==
    /\ hs # <<>> /\ hs.spc = "decode"
    /\ hs.sent
    /\ hs' = [hs EXCEPT !.spc = "run"]
    /\ UNCHANGED <<core, aux1, aux2NotShake>>

\* serve: cmd.run returns; errPipe and outPipe are closed.
SvReturn ==
    /\ hs # <<>> /\ hs.spc = "run"
    /\ hs' = [hs EXCEPT !.spc = "barrier", !.file["error"] = "closed",
                        !.file["output"] = "closed"]
    /\ UNCHANGED <<core, aux1, aux2NotShake>>

\* serve: inPipe.Read(r) returns at the end of file, the client having
\* closed its end; inPipe is closed and the deferred function runs.
SvBarrier ==
    /\ hs # <<>> /\ hs.spc = "barrier"
    /\ hs.cfile["input"] = "closed"
    /\ hs' = deferred(hs)
    /\ UNCHANGED <<core, aux1, aux2NotShake>>

\* Run returns after cleanup, which has waited for the session: the daemon
\* process is gone and so are its goroutines and its open files.
ShDaemonExit ==
    /\ hs # <<>> /\ hs.down /\ hs.daemon = "up"
    /\ hs.spc = "cleaned"
    /\ hs' = [hs EXCEPT !.daemon = "exited", !.file = closeAll(@),
                        !.gpc = "gone", !.gblk = FALSE]
    /\ UNCHANGED <<core, aux1, aux2NotShake>>

InitShake ==
    /\ lockFile = TRUE
    /\ InitDaemon
    /\ InitSrvIdle
    /\ InitLockIdle
    /\ InitIdsIdle
    /\ InitFifoIdle
    /\ InitEnvIdle
    /\ InitScopesIdle
    /\ InitProcIdle
    /\ InitRangeIdle
    /\ InitPrefixIdle
    /\ hs = ShakeStart

NextShake ==
    \/ ShMainCancel \/ ClOpenCall \/ OgOpenCall
    \/ \E f \in Paths : OpenMeet(f)
    \/ OgReport \/ ClSend \/ ClExit
    \/ SvDone \/ SvPipesOpen \/ SvDecode \/ SvReturn \/ SvBarrier
    \/ ShDaemonExit

SpecShake == InitShake /\ [][NextShake]_vars

\* The client, serve and its goroutine get to run, and a daemon that shuts
\* down goes; nothing is assumed of when, or whether, a shutdown begins or
\* the command returns.
FairShake ==
    /\ WF_vars(ClOpenCall) /\ WF_vars(OgOpenCall)
    /\ \A f \in Paths : WF_vars(OpenMeet(f))
    /\ WF_vars(OgReport) /\ WF_vars(ClSend) /\ WF_vars(ClExit)
    /\ WF_vars(SvDone) /\ WF_vars(SvPipesOpen) /\ WF_vars(SvDecode)
    /\ WF_vars(SvBarrier) /\ WF_vars(ShDaemonExit)

SpecShakeFair == SpecShake /\ FairShake


\* ------------------------------------------------------------------ claims

\* A route instance between its successful activeSet and its activeRemove.
holds(r) == rt[r].pc \in {"loop", "start", "wait", "ret", "defer_remove"}
sameKey(r, o) == rt[r].namespace = rt[o].namespace /\ r[2] = o[2]

\* C1: in every reachable state the registry holds at most one route per
\* (namespace, name): no two route instances are registered under the same
\* pair at once, and the registry's entry for the pair is the one instance
\* that is.
C1_OnePerKey ==
    /\ \A r, o \in RouteIds : holds(r) /\ holds(o) /\ sameKey(r, o) => r = o
    /\ \A r \in RouteIds : holds(r) => active[<<rt[r].namespace, r[2]>>] = r
    /\ \A k \in Keys : active[k] # NoRouteId =>
          holds(active[k]) /\ k = <<rt[active[k]].namespace, active[k][2]>>

\* Two instances contended for one pair: one is registered, the other was
\* turned away.
C1_Witness ==
    \E r, o \in RouteIds :
        /\ r # o /\ sameKey(r, o)
        /\ holds(r)
        /\ rt[o].pc = "ended" /\ rt[o].err = "already exists"

\* C2: a run invoked while another route is registered under the same
\* (namespace, name) fails at once with "already exists", starts no proc, and
\* leaves the registry and the registered route (context, label) as they were.
C2_AlreadyExists ==
    [][\A r \in RouteIds :
        LET o == active[<<rt[r].namespace, r[2]>>]
        IN  (rt[r].pc = "new" /\ rt'[r].pc # "new" /\ o # NoRouteId) =>
              /\ rt'[r].pc = "ended"
              /\ rt'[r].err = "already exists"
              /\ rt'[r].started = 0
              /\ active' = active
              /\ rt'[o] = rt[o]
              /\ mainCancelled' = mainCancelled]_vars

\* A run was turned away while the route registered under its pair is
\* executing a proc, not cancelled.
C2_Witness ==
    \E r, o \in RouteIds :
        /\ r # o /\ sameKey(r, o)
        /\ rt[r].pc = "ended" /\ rt[r].err = "already exists"
        /\ rt[r].started = 0
        /\ active[<<rt[o].namespace, o[2]>>] = o
        /\ rt[o].pc = "wait" /\ ~rt[o].cancelled

\* C3: within a route a child is started only when every child started
\* before it has been waited on, and never after a proc of the route ended
\* with an error or a cancellation.
C3_Sequential ==
    [][\A r \in RouteIds :
        (rt[r].pc # None /\ rt'[r].started > rt[r].started) =>
            /\ rt[r].started = rt[r].reaped
            /\ rt[r].err = ""]_vars

\* One route started its second child (the first one reaped), another was
\* aborted by an error of its first proc with procs left.
C3_Witness ==
    \E r, o \in RouteIds :
        /\ rt[r].started = 2 /\ rt[r].reaped = 1
        /\ rt[o].pc = "ended" /\ rt[o].err = "run"
        /\ rt[o].started = 1 /\ rt[o].idx < Len(rt[o].tasks)

EndsInError(label) ==
    /\ Len(label) >= 6
    /\ SubSeq(label, Len(label) - 5, Len(label)) = " error"

\* C4: when a route's run has ended after a successful registration, its
\* label is "finished", "canceled" or ends in " error" (a newProc failure
\* giving "<procName> error").
C4_TerminalLabel ==
    \A r \in RouteIds :
        (rt[r].pc \in {"ended", "panicked"} /\ rt[r].err # "already exists") =>
            \/ rt[r].active \in {"finished", "canceled"}
            \/ EndsInError(rt[r].active)

\* C5: the failure of a proc (spawn, stream setup, exit status) aborts its own
\* route only: the daemon stays up for the other routes and the sessions.
C5_Isolation ==
    \A r \in RouteIds :
        rt[r].err \in {"run", "setup"} => daemon # "crashed"

\* C6: the error of a route that a client's command started is reported on
\* that command's own stderr sink (the client's error FIFO).
C6_ErrSink ==
    \A r \in RouteIds :
        (rt[r].pc = "ended" /\ rt[r].err # "" /\ sess[r[1]] = "serving") =>
            <<r[1], r[2]>> \in stderrLog[r[1]]

\* The routes registered in a command's namespace when the command began.
snapInNamespace(c) ==
    {r \in RouteIds : snap[c][r].st = "reg"
                      /\ rt[r].namespace = cmd[c].Namespace}

killReturned(c) ==
    cmd[c].Sw = CmdKill /\ cmd[c].Route = "" /\ cpc[c] = "returned"

C8_ListShowsRunning ==
    \A c \in Cmds :
        (cmd[c].Sw = CmdList /\ cmd[c].Route = "" /\ cpc[c] = "returned") =>
            /\ \A r \in RouteIds :
                 ( /\ cmd[r[1]].Man = cmd[c].Man
                   /\ snap[c][r].idx > 0
                   /\ rt[r].pc \in {"start", "wait", "ret"}
                   /\ rt[r].idx = snap[c][r].idx ) =>
                     \E i \in 1..Len(out[c]) :
                        /\ out[c][i].name = r[2]
                        /\ out[c][i].active = rt[r].tasks[rt[r].idx].Name
            /\ \A i \in 1..Len(out[c]) : snap[c][out[c][i].of].st # "ended"

\* C9: a restart of a route that was running when the restart began, started
\* from the same manifest, starts the new instance only once the running one
\* has terminated and left the registry, and the new instance registers.
C9_RestartRegisters ==
    \A c \in Cmds : \A o \in RouteIds :
        ( /\ cmd[c].Sw = CmdRestart
          /\ o[1] # c /\ o[2] = cmd[c].Route
          /\ cmd[o[1]].Man = cmd[c].Man
          /\ snap[c][o].st = "reg"
          /\ rt[<<c, cmd[c].Route>>].pc # None ) =>
            /\ rt[o].done /\ ~registered(o)
            /\ rt[<<c, cmd[c].Route>>].err # "already exists"

\* C10: an exit command returns only after every route that was active when
\* it was issued has terminated.
C10_ExitAwaitsRoutes ==
    \A c \in Cmds :
        (cmd[c].Sw = CmdExit /\ cpc[c] = "returned") =>
            \A r \in RouteIds :
                snap[c][r].st = "reg" => rt[r].done /\ ~registered(r)

\* A FIFO session that has been set up and has not ended.
alive(c) == sess[c] \in {"open", "serving"}

\* C11: the lock file is removed and cleanupDone closed only after the root
\* context is cancelled, every FIFO session has ended (a registration racing
\* with the cleanup included) and every active route, the server's own
\* included, has completed.
C11_CleanupOrder ==
    (cleanupDone \/ ~lockFile) =>
        /\ mainCancelled
        /\ \A c \in Cmds : ~alive(c)
        /\ srv.own = 0
        /\ \A r \in RouteIds : ~registered(r)

\* The triggers whose call of cleanup ran the body (past the select).
ranBody == {t \in Triggers : cl[t] \in {"wait", "done"}}

\* C12: whatever triggers call cleanup, one after another or at once, the
\* body runs once, on a cleanupDone that is not closed yet; every other call
\* finds cleanupDone closed and does nothing; and no call is stuck: while one
\* is waiting, a call of cleanup or a session it waits for can take a step.
C12_CleanupOnce ==
    /\ Cardinality(ranBody) <= 1
    /\ \A t \in Triggers : cl[t] = "wait" => ~cleanupDone /\ cleanupMux = t
    /\ \A t \in Triggers : cl[t] \in {"done", "noop"} => cleanupDone
    /\ cleanupMux # 0 => cl[cleanupMux] = "wait"
    /\ (daemon = "up" /\ \E t \in Triggers : cl[t] \in {"start", "wait"}) =>
          \/ ENABLED (\E t \in Triggers : CleanupEnter(t) \/ CleanupFinish(t))
          \/ ENABLED (\E c \in Cmds : \/ SrvCmdStart(c) \/ SessionAbort(c)
                                      \/ SessionEnd(c) \/ RangeBegin(c)
                                      \/ ExitRun(c))

\* An exit command, SIGINT and the deferred call all called cleanup: one ran
\* the body, the two others did nothing.
C12_Witness ==
    /\ \A t \in {1, SigT, DeferT} : cl[t] \in {"done", "noop"}
    /\ Cardinality({t \in {1, SigT, DeferT} : cl[t] = "noop"}) = 2

\* C13: on every path by which the server process exits, the lock file has
\* been removed before.
C13_LockRemoved == daemon = "exited" => ~lockFile

\* The invocations that hold the server role: the lock acquired, not removed.
servers == {i \in Invs : inv[i] = "server"}

\* C14: of the invocations racing on one workdir at most one at a time has
\* created the lock file and not yet removed it, the lock file exists as long
\* as it has not, and an invocation that finds the lock file present becomes a
\* client, never a server.
C14_OneServer ==
    [][/\ Cardinality(servers') <= 1
       /\ servers' # {} => lockFile'
       /\ \A i \in Invs :
            (inv[i] = "start" /\ inv'[i] # "start" /\ lockFile) =>
                inv'[i] \in {"client", "failed"}
       /\ \A i \in Invs :
            (inv[i] = "start" /\ inv'[i] = "client") => lockFile]_vars

\* One invocation is the server, the two others found the lock and are
\* clients.
C14_Witness ==
    /\ Cardinality(servers) = 1
    /\ Cardinality({i \in Invs : inv[i] = "client"}) = 2

\* The users whose id is allocated and not released.
holders == {u \in Users : idOf[u].pc \in {"setup", "serving"}}

stdinAttached(r) == rt[r].tasks[rt[r].idx].In # ""
orderly(r) ==
    IF stdinAttached(r)
    THEN {<<"close_stdin", "SIGINT">>, <<"close_stdin", "SIGINT", "SIGKILL">>}
    ELSE {<<"SIGINT">>, <<"SIGINT", "SIGKILL">>}

\* C16: a runner whose context is cancelled while its child runs closes the
\* child's stdin if one is attached, then sends SIGINT, then SIGKILL only when
\* the timer fires before the child's exit has been observed; what it returns
\* then is "canceled", and it returns only once the child is reaped.
C16_CancelOrder ==
    [][\A r \in RouteIds :
        /\ rt'[r].sigint => rt'[r].ev \in orderly(r)
        /\ ~rt'[r].sigint => rt'[r].ev = <<>>
        /\ (rt[r].sigint /\ Len(rt'[r].ev) > Len(rt[r].ev)) =>
              /\ rt[r].pc = "wait"
              /\ rt[r].child \in {"running", "exited"}
        /\ (rt[r].sigint /\ ~rt'[r].sigint) =>
              /\ rt[r].pc = "ret"
              /\ rt[r].child = "reaped"
              /\ rt[r].reaped = rt[r].started
              /\ runResults(r) = {"canceled"}
              /\ rt'[r].err = runError("canceled")]_vars

\* A child with a stdin attached ignored SIGINT, was killed by the timer and
\* is reaped: the runner is about to return.
C16_Witness ==
    \E r \in RouteIds :
        /\ rt[r].pc = "ret"
        /\ rt[r].child = "reaped"
        /\ rt[r].ev = <<"close_stdin", "SIGINT", "SIGKILL">>

\* C17: after a proc's context is cancelled mid-run the proc's run returns
\* and its route terminates, even if the child never exits of itself; a kill
\* command waiting on the route returns, and only once the route's done signal
\* has fired with its last child reaped.
C17_CancelTerminates ==
    /\ \A r \in RouteIds :
         rt[r].sigint ~> (~rt[r].sigint /\ rt[r].pc = "ended" /\ rt[r].done)
    /\ \A c \in Cmds :
         (cpc[c] = "kill_await" /\ rt[cur[c]].sigint) ~> (cpc[c] = "returned")
    /\ [][\A c \in Cmds :
            (cpc[c] = "kill_await" /\ cpc'[c] # "kill_await") =>
                /\ rt[cur[c]].done
                /\ rt[cur[c]].reaped = rt[cur[c]].started
                /\ rt[cur[c]].child # "running"]_vars

\* A kill is waiting on a route whose child ignored SIGINT and was killed by
\* the timer, and is now reaped.
C17_Witness ==
    \E c \in Cmds :
        /\ cpc[c] = "kill_await"
        /\ rt[cur[c]].child = "reaped"
        /\ "SIGKILL" \in {rt[cur[c]].ev[i] : i \in 1..Len(rt[cur[c]].ev)}

\* The messages the session has received after its Command and not decoded.
received == ses.buf \o fifo

\* C18: a cancel message received on the session's input FIFO, after the
\* Command, while the command runs cancels the command's context: it is never
\* left there with nobody to decode it.
C18_CancelCancels ==
    ( /\ ses.pc = "run"
      /\ ses.lis = "gone"
      /\ \E i \in 1..Len(received) : received[i] = CmdCancel ) => ses.ctx

\* C19: once the command has returned the server closes input, removes the
\* FIFOs and frees the id only after the client has closed its end; a byte
\* the client still sends does not end the wait.
C19_Barrier ==
    (ses.first # None /\ ses.pc \in {"closeIn", "cleaned"}) =>
        /\ cli.pc = "closed"
        /\ ses.barrier = "eof"

\* The messages a client has written that are cancels.
cancelsSent == {i \in 1..Len(cli.sent) : cli.sent[i] = CmdCancel}

\* C20: whenever SIGINT arrives, the first message op's client writes on the
\* input FIFO is the Command, a cancel comes after it, and there is at most
\* one cancel.
C20_CommandFirst ==
    cli.kind = "op" =>
        /\ cli.sent # <<>> => cli.sent[1] = MsgCmd
        /\ Cardinality(cancelsSent) <= 1

\* The manifest a command's client read, as it is written.
manifestOf(c) == ManifestFile(cmd[c].Man)
\* The routes a command has started.
startedBy(c) == {n \in Names : rt[<<c, n>>].pc # None}
\* A run command that has started its routes.
spawned(c) ==
    cmd[c].Sw = CmdRun /\ cmd[c].Err = "" /\ cpc[c] \in {"run_wait", "returned"}
\* The names of the procs a route instance runs, in order.
taskNames(r) == [i \in 1..Len(rt[r].tasks) |-> rt[r].tasks[i].Name]

runReturned(c) == cmd[c].Sw = CmdRun /\ cmd[c].Err = "" /\ cpc[c] = "returned"

\* C22: a run command starts its selected routes together and returns only
\* after each of them has ended and is out of the active registry, whatever
\* its outcome.
C22_RunAwaitsRoutes ==
    \A c \in Cmds :
        /\ (cmd[c].Sw = CmdRun /\ cpc[c] = "run_wait") =>
              startedBy(c) = selected(cmd[c])
        /\ runReturned(c) =>
              \A n \in startedBy(c) :
                  /\ rt[<<c, n>>].pc = "ended"
                  /\ active[<<rt[<<c, n>>].namespace, n>>] # <<c, n>>

\* Two run commands have returned, one whose route was refused as already
\* existing, one whose route ended on the error of a proc.
C22_Witness ==
    \E c, d \in Cmds :
        /\ runReturned(c) /\ runReturned(d)
        /\ \E n \in startedBy(c) : rt[<<c, n>>].err = "already exists"
        /\ \E n \in startedBy(d) : rt[<<d, n>>].err = "run"

\* The arguments of a command name a route that is not in the manifest, or a
\* proc that is not in the named route.
notDefined(c) ==
    LET routes == manifestOf(c).Routes
    IN  /\ cmd[c].Route # ""
        /\ \/ cmd[c].Route \notin DOMAIN routes
           \/ /\ cmd[c].Proc # ""
              /\ \A i \in 1..Len(routes[cmd[c].Route].Procs) :
                    routes[cmd[c].Route].Procs[i].Name # cmd[c].Proc

\* C23: a run command naming a route that is not in its config, or a proc that
\* is not in the named route, returns a not-defined error and changes
\* nothing: no route is registered and no child is started.
C23_NotDefined ==
    [][\A c \in Cmds :
          ( /\ cmd[c].Sw = CmdRun /\ cpc[c] = "run" /\ notDefined(c)
            /\ cpc'[c] # cpc[c] ) =>
              /\ cpc'[c] = "returned"
              /\ cmd'[c].Err \in {"route not defined", "process not defined"}
              /\ startedBy(c) = {}
              /\ active' = active
              /\ rt' = rt]_vars

\* One run command has returned "route not defined", another "process not
\* defined".
C23_Witness ==
    \E c, d \in Cmds :
        /\ cpc[c] = "returned" /\ cmd[c].Err = "route not defined"
        /\ cpc[d] = "returned" /\ cmd[d].Err = "process not defined"

\* The text has a marker, ${ with a closing brace after it, or a backslash.
hasMarker(b) ==
    \E i \in 1..Len(b) :
        \/ b[i] = "\\"
        \/ /\ b[i] = "$" /\ i < Len(b) /\ b[i + 1] = "{"
           /\ \E k \in (i + 2)..Len(b) : b[k] = "}"

\* C24: a text with no ${NAME} marker and no backslash escape comes out of
\* expandEnv as it went in, its $ signs included.
C24_DollarKept ==
    (expanded.done /\ ~hasMarker(text)) => expanded.out = text

\* The map of a level holds every key of the map of the level above, and the
\* value of each key is that of the innermost level that declares it.
innermost(top, route, proc, outRoute, outProc) ==
    /\ DOMAIN top \subseteq DOMAIN outRoute
    /\ DOMAIN outRoute \subseteq DOMAIN outProc
    /\ \A k \in DOMAIN outRoute :
         outRoute[k] = IF k \in DOMAIN route THEN route[k] ELSE top[k]
    /\ \A k \in DOMAIN outProc :
         outProc[k] = IF k \in DOMAIN proc THEN proc[k]
                      ELSE IF k \in DOMAIN route THEN route[k]
                      ELSE top[k]

\* C25: after manifest resolution the env of a proc holds every key of its
\* route's env, the route's env every key of the top-level env, and on a key
\* declared at several levels the innermost value wins; the same for var.
C25_InnermostWins ==
    resolved.done =>
        \A n \in DOMAIN manifest.Routes :
            \A p \in DOMAIN manifest.Routes[n].Procs :
                LET route == manifest.Routes[n]
                    res == resolved.out.Routes[n]
                IN  /\ innermost(manifest.Env, route.Env, route.Procs[p].Env,
                                 res.Env, res.Procs[p].Env)
                    /\ innermost(manifest.Var, route.Var, route.Procs[p].Var,
                                 res.Var, res.Procs[p].Var)

\* A manifest is resolved whose env declares k1 at all three levels and k2 at
\* top level only, and whose var declares k1 at top level and in the route.
C25_Witness ==
    /\ resolved.done
    /\ DOMAIN manifest.Env = ScopeKeys
    /\ DOMAIN manifest.Routes["r1"].Env = {"k1"}
    /\ DOMAIN manifest.Routes["r1"].Procs[1].Env = {"k1"}
    /\ "k1" \in DOMAIN manifest.Var
    /\ "k1" \in DOMAIN manifest.Routes["r1"].Var
    /\ "k2" \in DOMAIN manifest.Routes["r1"].Procs[1].Var

\* The slot of a route instance in the registry.
slot(r) == <<rt[r].namespace, r[2]>>
\* route.run is over, after a registration that succeeded.
ranOut(r) == rt[r].pc \in {"ended", "panicked"} /\ rt[r].err # "already exists"

\* C26 as stated: ... the removal precedes the done signal, so that whoever is
\* woken by done finds the slot of the route free.
C26_SlotFree ==
    [][\A r \in RouteIds :
          (~rt[r].done /\ rt'[r].done) => active'[slot(r)] = NoRouteId]_vars

\* C26 as amended: on every exit path of route.run after a successful
\* registration the route is removed from the registry, then its done signal
\* fires, then its own context is cancelled: the done signal never fires
\* while the route is registered, and a route whose run is over is out of the
\* registry, with done fired and its context cancelled.  The slot may by then
\* hold the route of another command.
C26_RemoveThenDone ==
    [][\A r \in RouteIds :
          /\ (~rt[r].done /\ rt'[r].done) =>
                /\ active[slot(r)] # r /\ active'[slot(r)] # r
                /\ rt[r].pc = "defer_close"
          /\ (rt[r].pc = "defer_cancel" /\ rt'[r].pc # "defer_cancel") =>
                rt[r].done /\ rt'[r].cancelled
          /\ ranOut(r)' => (rt'[r].done /\ rt'[r].cancelled
                             /\ active'[slot(r)] # r)]_vars

\* Two routes have run out, one finished or on a proc's error, one on the
\* failure of newProc.
C26_Witness ==
    \E r, o \in RouteIds :
        /\ ranOut(r) /\ rt[r].err \in {"", "run", "canceled"}
        /\ ranOut(o) /\ rt[o].err = "setup"

\* C27: within a proc run the child is reaped only after its stream copiers
\* have completed, the stdin copier as well as those of stdout and stderr.
C27_CopiersBeforeReap ==
    pr.child = "reaped" =>
        /\ pr.cout = "done" /\ pr.cerr = "done"
        /\ pr.cfg.In # "" => pr.cin = "done"

\* C28: id allocation always returns: a call of getId can come to its end
\* whatever the active set is, the one with every id in it included.
C28_GetIdReturns ==
    \A u \in Users : idOf[u].pc = "getid" => ENABLED GetId(u)

\* C29: a SIGINT that op's client receives once its handler is installed,
\* before the input FIFO is open as well as after, puts a cancel message on
\* the input FIFO: when the handler is through, a cancel has been written.
C29_SigintCancels ==
    (cli.kind = "op" /\ cli.sig) => cancelsSent # {}

\* C30: a registry iteration, over one namespace or over all, never holds
\* activeMux while the callback runs, so the callback that cancels a route
\* and waits for its done signal does not keep the route from deregistering,
\* and the iteration comes to its end while routes are deleted under it.
C30_RangeUnlocked ==
    /\ [](rng.pc \in {"fn", "await"} => activeMux # "range")
    /\ <>(rng.pc = "finished")

\* An iteration over all namespaces is over: its callback cancelled a route
\* and waited for it, and a route that was registered at the start was
\* deleted under it and never produced.
C30_Witness ==
    /\ rng.kind = "all" /\ rng.pc = "finished"
    /\ rng.seen # {}
    /\ \A k \in rng.seen : rts[k].st = "done"
    /\ \E k \in RKeys : rts[k].st = "done" /\ k \notin rng.seen

\* What the buffering rule makes of a sequence of writes: the flushes made,
\* and the bytes gathered since the last of them.
RECURSIVE ruleOf(_, _, _, _)
ruleOf(ws, i, acc, sunk) ==
    IF i > Len(ws) THEN [sunk |-> sunk, acc |-> acc]
    ELSE IF ws[i] # <<>> /\ ws[i][Len(ws[i])] = "\n"
         THEN ruleOf(ws, i + 1, <<>>, Append(sunk, acc \o ws[i]))
         ELSE ruleOf(ws, i + 1, acc \o ws[i], sunk)
pxPrefix == SubSeq(px.buf, 1, px.n)
pxRule == ruleOf(px.writes, 1, <<>>, <<>>)

\* C31: whatever the writes were, the sink has got one write for each write
\* that ended in a newline and none else, each of them the prefix once and
\* then all bytes given since the flush before; the buffer holds the prefix
\* and the bytes given since the last flush, which the sink has not got.
C31_LineFlush ==
    /\ Len(px.dst) = Len(pxRule.sunk)
    /\ \A i \in 1..Len(px.dst) : px.dst[i] = pxPrefix \o pxRule.sunk[i]
    /\ px.buf = pxPrefix \o pxRule.acc

\* Three writes: a part of a line, the rest of it with its newline, which
\* flushes both, and bytes after it that stay in the buffer.
C31_Witness ==
    /\ Len(px.writes) = 3
    /\ px.writes[1] # <<>> /\ px.writes[1][Len(px.writes[1])] # "\n"
    /\ px.writes[2] # <<>> /\ px.writes[2][Len(px.writes[2])] = "\n"
    /\ Len(px.writes[2]) = 2
    /\ px.writes[3] # <<>> /\ px.writes[3][Len(px.writes[3])] # "\n"
    /\ Len(px.dst) = 1
    /\ Len(px.buf) > px.n

\* C33: idActive never keeps an id that has no session: every id in it is
\* the id of a registration under way or of a session that serve has not
\* yet cleaned, the registrations whose FIFOs could not be made included.
C33_NoOrphanId ==
    idActive \subseteq {idOf[u].id : u \in holders}

\* The command of the session has returned.
cmdReturned == hs # <<>> /\ hs.spc = "barrier"
\* The session is over on both sides.
sessionOver ==
    /\ hs.cpc = "exited"
    /\ hs.spc = "cleaned" /\ ~hs.linked /\ ~hs.idHeld

\* C32: the client got its id while the daemon was not shutting down.  No
\* open of a FIFO by the client waits for ever for the other end; and once
\* the command has returned the client's copiers come to the end of their
\* pipes, the client exits, and serve removes the FIFOs and frees the id.
C32_HandshakeCompletes ==
    /\ (hs # <<>> /\ hs.cblk) ~> (hs # <<>> /\ ~hs.cblk)
    /\ cmdReturned ~> sessionOver

\* The same with no shutdown while the pipes are being opened: all three
\* opens complete on both sides.
C32_OpensCompleteNoShutdown ==
    <>(hs # <<>>
       /\ \/ hs.down
          \/ \A f \in Paths : hs.cfile[f] # "none" /\ hs.file[f] # "none")

====
